---- MODULE Spec2Model ----
(***************************************************************************)
(* Verification model of the Unicode classification table generators       *)
(* (CodepointWidthDetector_gen.go, kept in src/unnamed/part_000, and       *)
(* CodepointWidthDetector_triegen.go, kept at the end of                   *)
(* src/src/tsf/ConsoleTSF.cpp) and of the grapheme scan built on their     *)
(* tables.  Definitions of the first generator keep the source's names;    *)
(* those of the second carry the suffix _triegen.                          *)
(***************************************************************************)
EXTENDS Integers, Sequences, FiniteSets, TLC

(***************************************************************************)
(* Bounds of the trie inputs.                                              *)
(***************************************************************************)
MaxValuesLen == 5
MaxShift == 2
MaxShiftCount == 2

\* Element values of the input arrays: a zero, a byte and values whose
\* second or third byte is set (TrieType is uint32).
ValueAlphabet == {0, 1, 256, 65536}

VARIABLES
    littleEndian,   \* byte order of the platform the generator is built for
    uncompressed,   \* buildTrie's input array
    shifts,         \* buildTrie's per-stage shifts
    builder,        \* which generator's buildTrie has run: "none", "gen", "triegen"
    trie,           \* the Trie returned: [Stages, TotalSize]
    text,           \* the text under the grapheme scan (classification values)
    phase,          \* "idle", "forward", "backward", "done"
    scanPos,        \* beg of the GraphemeNext loop, end of the GraphemePrev loop
    fwdAdvances,    \* actualAdvances / actualWidths of the forward loop
    fwdWidths,
    bwdAdvances,    \* the same of the backward loop (reversed when it ends)
    bwdWidths,
    generator,      \* which generator runs: "gen", "triegen" ("none": neither)
    pc,             \* position of the run inside main / run / extractValuesFromUCD
    osArgs,         \* len(os.Args)
    file,           \* the file named by os.Args[1]: "unreadable", "malformed", "ucd"
    ucd,            \* the <char> records of the document consumed so far, in order
    values,         \* the dense array of extractValuesFromUCD, Nil once it returns nil
    err,            \* the error returned: [msg, firstCp, lastCp], NoError for nil
    stdout,         \* what has been written to standard output, in order
    exitCode,       \* the exit status, Running while the process runs
    bestArgs,       \* buildBestTrie's arguments: [minShift, maxShift, stages]
    workers,        \* its goroutines: [pc, shifts, result, sent] for each i
    spawned,        \* i of its first loop: the goroutines started so far
    received,       \* i of its second loop: the results received so far
    bestTrie,       \* bestTrie
    bestPc,         \* "idle", "spawning", "collecting", "returned"
    rulesTable,     \* rules of the simple generator: [lead][trail] -> BOOLEAN
    rulesPc,        \* "idle", "start", "built", "looked up"
    leadValue,      \* the arguments of a call of the simple ucdGraphemeJoins
    trailValue,
    joinVerdict,    \* what the call returned, NoVerdict before it
    findHaystack,   \* the arguments of a call of findExisting
    findNeedle,
    findResult,     \* what the call returned
    findPc,         \* "idle", "called", "returned"
    cCompositions,  \* CConsoleTSF::_cCompositions
    fModifyingDoc,  \* CConsoleTSF::_fModifyingDoc
    pConversionArea,\* whether CConsoleTSF::_pConversionArea is set
    imeCalls,       \* the calls of ImeStartComposition / ImeEndComposition, in order
    lastCall        \* the last composition callback: [callback, appOwned, hr, pfOk]

trieVars == <<littleEndian, uncompressed, shifts, builder, trie>>
scanVars == <<text, phase, scanPos, fwdAdvances, fwdWidths, bwdAdvances, bwdWidths>>
runVars == <<generator, pc, osArgs, file, ucd, values, err, stdout, exitCode>>
bestVars == <<bestArgs, workers, spawned, received, bestTrie, bestPc>>
rulesVars == <<rulesTable, rulesPc, leadValue, trailValue, joinVerdict>>
findVars == <<findHaystack, findNeedle, findResult, findPc>>
tsfVars == <<cCompositions, fModifyingDoc, pConversionArea, imeCalls, lastCall>>
vars == <<trieVars, scanVars, runVars, bestVars, rulesVars, findVars, tsfVars>>

(***************************************************************************)
(* Arithmetic helpers.                                                     *)
(***************************************************************************)
RECURSIVE Pow2(_)
Pow2(n) == IF n = 0 THEN 1 ELSE 2 * Pow2(n - 1)

Min(a, b) == IF a < b THEN a ELSE b

SetMax(S) == CHOOSE x \in S : \A y \in S : y <= x

SetMin(S) == CHOOSE x \in S : \A y \in S : x <= y

SeqMax(s) == SetMax({s[i] : i \in 1..Len(s)})

Reverse(s) == [i \in 1..Len(s) |-> s[Len(s) + 1 - i]]

SeqsUpTo(S, n) == UNION {[1..k -> S] : k \in 1..n}

\* Go's s[lo:hi] on a zero-based slice.
Slice(s, lo, hi) == SubSeq(s, lo + 1, hi)

\* x >> n
ShiftRight(x, n) == x \div Pow2(n)

\* x & (2^bits - 1).  Every index of the model is below 2^31, so a mask of
\* 31 or more one-bits keeps the value.
MaskLow(x, bits) == IF bits >= 31 THEN x ELSE x % Pow2(bits)

(***************************************************************************)
(* The byte view of a []TrieType that unsafe.String / unsafe.Slice give.   *)
(***************************************************************************)
sizeofTrieType == 4

TrieTypeBytes(v) ==
    LET b0 == v % 256
        b1 == (v \div 256) % 256
        b2 == (v \div 65536) % 256
        b3 == (v \div 16777216) % 256
    IN  IF littleEndian THEN <<b0, b1, b2, b3>> ELSE <<b3, b2, b1, b0>>

unsafeBytes(s) ==
    [i \in 1..(sizeofTrieType * Len(s)) |->
        TrieTypeBytes(s[((i - 1) \div sizeofTrieType) + 1])[((i - 1) % sizeofTrieType) + 1]]

\* bytes.Index: the first zero-based position of n in h, or -1.
bytesIndex(h, n) ==
    LET hits == {i \in 0..(Len(h) - Len(n)) : SubSeq(h, i + 1, i + Len(n)) = n}
    IN  IF hits = {} THEN -1 ELSE SetMin(hits)

(***************************************************************************)
(* findExisting and measureOverlap (CodepointWidthDetector_gen.go).        *)
(***************************************************************************)
\* The loop of findExisting: i = bytes.Index(h[i:], n), until the position
\* found is a multiple of the element size.
RECURSIVE findExistingLoop(_, _, _)
findExistingLoop(h, n, i) ==
    LET j == bytesIndex(Slice(h, i, Len(h)), n)
    IN  IF j = -1 THEN -1
        ELSE IF j % sizeofTrieType = 0 THEN j \div sizeofTrieType
        ELSE findExistingLoop(h, n, j)

findExisting(haystack, needle) ==
    IF Len(haystack) = 0 \/ Len(needle) = 0 THEN -1
    ELSE findExistingLoop(unsafeBytes(haystack), unsafeBytes(needle), 0)

measureOverlap(prev, next) ==
    LET fits == {overlap \in 0..Min(Len(prev), Len(next)) :
                    Slice(prev, Len(prev) - overlap, Len(prev)) = Slice(next, 0, overlap)}
    IN  IF fits = {} THEN 0 ELSE SetMax(fits)

(***************************************************************************)
(* Stages and their element width.                                         *)
(***************************************************************************)
\* math.MaxInt32 and math.MaxUint32 as root masks, kept as their number of
\* one-bits; a chunk stage's mask chunkSize - 1 has `shift` one-bits.
MaxInt32Bits == 31
MaxUint32Bits == 32

bitSize_WithoutUint32(x) == IF x <= 255 THEN 8 ELSE 16

bitSize(x) == IF x <= 255 THEN 8 ELSE IF x <= 65535 THEN 16 ELSE 32

Stage(vals, shift, maskBits) ==
    [Values |-> vals, Shift |-> shift, MaskBits |-> maskBits, Bits |-> 0]

withBits(stages) ==
    [i \in 1..Len(stages) |-> [stages[i] EXCEPT !.Bits = bitSize(SeqMax(stages[i].Values))]]

RECURSIVE totalSize_InBits(_)
totalSize_InBits(stages) ==
    IF stages = <<>> THEN 0
    ELSE Head(stages).Bits * Len(Head(stages).Values) + totalSize_InBits(Tail(stages))

RECURSIVE totalSize(_)
totalSize(stages) ==
    IF stages = <<>> THEN 0
    ELSE (Head(stages).Bits \div 8) * Len(Head(stages).Values) + totalSize(Tail(stages))

cacheHas(cache, key) == \E e \in cache : e.key = key

cacheGet(cache, key) == (CHOOSE e \in cache : e.key = key).offset

(***************************************************************************)
(* buildTrie of CodepointWidthDetector_gen.go: exact-duplicate cache,      *)
(* findExisting, measureOverlap.                                           *)
(***************************************************************************)
\* The inner loop over the chunks of one stage.
RECURSIVE compressChunks(_, _, _, _, _, _)
compressChunks(unc, chunkSize, i, cache, compressed, offsets) ==
    IF i >= Len(unc) THEN [compressed |-> compressed, offsets |-> offsets]
    ELSE
        LET chunk == Slice(unc, i, Min(Len(unc), i + chunkSize))
            key == unsafeBytes(chunk)
        IN  IF cacheHas(cache, key)
            THEN compressChunks(unc, chunkSize, i + chunkSize, cache, compressed,
                                Append(offsets, cacheGet(cache, key)))
            ELSE
                LET existing == findExisting(compressed, chunk)
                    overlap == measureOverlap(compressed, chunk)
                    appended == compressed \o Slice(chunk, overlap, Len(chunk))
                    offset == IF existing # -1 THEN existing
                              ELSE Len(appended) - Len(chunk)
                IN  compressChunks(unc, chunkSize, i + chunkSize,
                                   cache \cup {[key |-> key, offset |-> offset]},
                                   IF existing # -1 THEN compressed ELSE appended,
                                   Append(offsets, offset))

\* The outer loop over the shifts; the stages come out leaf first.
RECURSIVE buildStages(_, _, _, _)
buildStages(unc, shs, cumulativeShift, stages) ==
    IF shs = <<>>
    THEN Append(stages, Stage(unc, cumulativeShift, MaxInt32Bits))
    ELSE
        LET shift == Head(shs)
            r == compressChunks(unc, Pow2(shift), 0, {}, <<>>, <<>>)
        IN  buildStages(r.offsets, Tail(shs), cumulativeShift + shift,
                        Append(stages, Stage(r.compressed, cumulativeShift, shift)))

buildTrie(unc, shs) ==
    LET stages == withBits(Reverse(buildStages(unc, shs, 0, <<>>)))
    IN  [Stages |-> stages, TotalSize |-> totalSize(stages)]

\* The storage buildTrie writes to.  compressed and offsets are made by make()
\* and grown by append: arrays of their own.  chunk is a slice of the input
\* and is only read (cache key, findExisting, measureOverlap, the source of
\* append); uncompressed = offsets rebinds the parameter.
compressedStore_InputPrefix(unc) == "uncompressed"

\* compressed := make([]TrieType, 0, len(uncompressed)/8)
compressedStore(unc) == "make"

\* The caller's array once buildTrie(unc, shs) has returned: the appends of
\* the first stage land in it only if compressed shares its storage.
inputAfterBuildTrie(unc, shs) ==
    IF shs = <<>> \/ compressedStore(unc) = "make" THEN unc
    ELSE
        LET r == compressChunks(unc, Pow2(Head(shs)), 0, {}, <<>>, <<>>)
        IN  r.compressed \o Slice(unc, Len(r.compressed), Len(unc))

(***************************************************************************)
(* buildTrie of CodepointWidthDetector_triegen.go: exact-duplicate cache   *)
(* only, every new chunk appended whole.                                   *)
(***************************************************************************)
newChunkOffsetAfterAppend(compressed, chunk) == Len(compressed) + Len(chunk)

\* offset = TrieType(len(compressed)), taken before the chunk is appended.
newChunkOffset_triegen(compressed, chunk) == Len(compressed)

RECURSIVE compressChunks_triegen(_, _, _, _, _, _)
compressChunks_triegen(unc, chunkSize, i, cache, compressed, offsets) ==
    IF i >= Len(unc) THEN [compressed |-> compressed, offsets |-> offsets]
    ELSE
        LET chunk == Slice(unc, i, Min(i + chunkSize, Len(unc)))
            key == unsafeBytes(chunk)
        IN  IF cacheHas(cache, key)
            THEN compressChunks_triegen(unc, chunkSize, i + chunkSize, cache, compressed,
                                        Append(offsets, cacheGet(cache, key)))
            ELSE
                LET offset == newChunkOffset_triegen(compressed, chunk)
                IN  compressChunks_triegen(unc, chunkSize, i + chunkSize,
                                           cache \cup {[key |-> key, offset |-> offset]},
                                           compressed \o chunk,
                                           Append(offsets, offset))

RECURSIVE buildStages_triegen(_, _, _, _)
buildStages_triegen(unc, shs, cumulativeShift, stages) ==
    IF shs = <<>>
    THEN Append(stages, Stage(unc, cumulativeShift, MaxUint32Bits))
    ELSE
        LET shift == Head(shs)
            r == compressChunks_triegen(unc, Pow2(shift), 0, {}, <<>>, <<>>)
        IN  buildStages_triegen(r.offsets, Tail(shs), cumulativeShift + shift,
                                Append(stages, Stage(r.compressed, cumulativeShift, shift)))

buildTrie_triegen(unc, shs) ==
    LET stages == withBits(Reverse(buildStages_triegen(unc, shs, 0, <<>>)))
    IN  [Stages |-> stages, TotalSize |-> totalSize(stages)]

(***************************************************************************)
(* The lookup of run()'s sanity check and of the generated ucdLookup:      *)
(*   v = s.Values[int(v) + ((cp >> s.Shift) & s.Mask)]  over the stages.   *)
(* An index outside a stage's Values is Go's index-out-of-range panic.     *)
(***************************************************************************)
LookupPanic == -1

RECURSIVE trieLookup_Unmasked(_, _, _)
trieLookup_Unmasked(stages, cp, v) ==
    IF stages = <<>> THEN v
    ELSE
        LET s == Head(stages)
            idx == v + ShiftRight(cp, s.Shift)
        IN  IF idx >= Len(s.Values) THEN LookupPanic
            ELSE trieLookup_Unmasked(Tail(stages), cp, s.Values[idx + 1])

RECURSIVE trieLookup(_, _, _)
trieLookup(stages, cp, v) ==
    IF stages = <<>> THEN v
    ELSE
        LET s == Head(stages)
            idx == v + MaskLow(ShiftRight(cp, s.Shift), s.MaskBits)
        IN  IF idx >= Len(s.Values) THEN LookupPanic
            ELSE trieLookup(Tail(stages), cp, s.Values[idx + 1])

roundTrips(stages, expected) ==
    \A cp \in 0..(Len(expected) - 1) : trieLookup(stages, cp, 0) = expected[cp + 1]

(***************************************************************************)
(* Classification values (both generators use the same bit layout).        *)
(***************************************************************************)
cwZeroWidth == 0
cwNarrow == 1
cwWide == 2
cwAmbiguous == 3

cbOther == 0
cbControl == 1
cbExtend == 2
cbRI == 3
cbPrepend == 4
cbHangulL == 5
cbHangulV == 6
cbHangulT == 7
cbHangulLV == 8
cbHangulLVT == 9
cbInCBLinker == 10
cbInCBConsonant == 11
cbExtPic == 12
cbZWJ == 13
cbCount == 14

\* TrieType(byte(cb) | byte(width)<<6): cb is below 64, so the OR is a sum.
trieValue(cb, width) == cb + 64 * width

(***************************************************************************)
(* JoinRules of CodepointWidthDetector_gen.go.  Omega is the break verdict;*)
(* rows are leading categories, columns trailing categories.               *)
(***************************************************************************)
Omega == 3

baseTable ==
    <<
    <<Omega, Omega, 0, Omega, Omega, Omega, Omega, Omega, Omega, Omega, 0, Omega, Omega, 0>>,   \* cbOther
    <<Omega, Omega, Omega, Omega, Omega, Omega, Omega, Omega, Omega, Omega, Omega, Omega, Omega, Omega>>,   \* cbControl
    <<Omega, Omega, 0, Omega, Omega, Omega, Omega, Omega, Omega, Omega, 0, Omega, Omega, 0>>,   \* cbExtend
    <<Omega, Omega, 0, 1, Omega, Omega, Omega, Omega, Omega, Omega, 0, Omega, Omega, 0>>,   \* cbRI
    <<0, Omega, 0, 0, 0, 0, 0, 0, 0, 0, 0, 0, 0, 0>>,   \* cbPrepend
    <<Omega, Omega, 0, Omega, Omega, 0, 0, Omega, 0, 0, 0, Omega, Omega, 0>>,   \* cbHangulL
    <<Omega, Omega, 0, Omega, Omega, Omega, 0, 0, Omega, Omega, 0, Omega, Omega, 0>>,   \* cbHangulV
    <<Omega, Omega, 0, Omega, Omega, Omega, Omega, 0, Omega, Omega, 0, Omega, Omega, 0>>,   \* cbHangulT
    <<Omega, Omega, 0, Omega, Omega, Omega, 0, 0, Omega, Omega, 0, Omega, Omega, 0>>,   \* cbHangulLV
    <<Omega, Omega, 0, Omega, Omega, Omega, Omega, 0, Omega, Omega, 0, Omega, Omega, 0>>,   \* cbHangulLVT
    <<Omega, Omega, 0, Omega, Omega, Omega, Omega, Omega, Omega, Omega, 0, 0, Omega, 0>>,   \* cbInCBLinker
    <<Omega, Omega, 0, Omega, Omega, Omega, Omega, Omega, Omega, Omega, 0, Omega, Omega, 0>>,   \* cbInCBConsonant
    <<Omega, Omega, 0, Omega, Omega, Omega, Omega, Omega, Omega, Omega, 0, Omega, Omega, 0>>,   \* cbExtPic
    <<Omega, Omega, 0, Omega, Omega, Omega, Omega, Omega, Omega, Omega, 0, Omega, 0, 0>>    \* cbZWJ
    >>

\* "It's a copy of the base table, but further Regional Indicator joins are
\* forbidden."
riPairTable ==
    <<
    <<Omega, Omega, 0, Omega, Omega, Omega, Omega, Omega, Omega, Omega, 0, Omega, Omega, 0>>,   \* cbOther
    <<Omega, Omega, Omega, Omega, Omega, Omega, Omega, Omega, Omega, Omega, Omega, Omega, Omega, Omega>>,   \* cbControl
    <<Omega, Omega, 0, Omega, Omega, Omega, Omega, Omega, Omega, Omega, 0, Omega, Omega, 0>>,   \* cbExtend
    <<Omega, Omega, 0, Omega, Omega, Omega, Omega, Omega, Omega, Omega, 0, Omega, Omega, 0>>,   \* cbRI
    <<0, Omega, 0, 0, 0, 0, 0, 0, 0, 0, 0, 0, 0, 0>>,   \* cbPrepend
    <<Omega, Omega, 0, Omega, Omega, 0, 0, Omega, 0, 0, 0, Omega, Omega, 0>>,   \* cbHangulL
    <<Omega, Omega, 0, Omega, Omega, Omega, 0, 0, Omega, Omega, 0, Omega, Omega, 0>>,   \* cbHangulV
    <<Omega, Omega, 0, Omega, Omega, Omega, Omega, 0, Omega, Omega, 0, Omega, Omega, 0>>,   \* cbHangulT
    <<Omega, Omega, 0, Omega, Omega, Omega, 0, 0, Omega, Omega, 0, Omega, Omega, 0>>,   \* cbHangulLV
    <<Omega, Omega, 0, Omega, Omega, Omega, Omega, 0, Omega, Omega, 0, Omega, Omega, 0>>,   \* cbHangulLVT
    <<Omega, Omega, 0, Omega, Omega, Omega, Omega, Omega, Omega, Omega, 0, 0, Omega, 0>>,   \* cbInCBLinker
    <<Omega, Omega, 0, Omega, Omega, Omega, Omega, Omega, Omega, Omega, 0, Omega, Omega, 0>>,   \* cbInCBConsonant
    <<Omega, Omega, 0, Omega, Omega, Omega, Omega, Omega, Omega, Omega, 0, Omega, Omega, 0>>,   \* cbExtPic
    <<Omega, Omega, 0, Omega, Omega, Omega, Omega, Omega, Omega, Omega, 0, Omega, 0, 0>>    \* cbZWJ
    >>

JoinRules_PrependBreaksAfterPair ==
    <<baseTable, [riPairTable EXCEPT ![cbPrepend + 1][cbRI + 1] = Omega]>>

JoinRules_ExtendAfterExtendBreaks ==
    <<[baseTable EXCEPT ![cbExtend + 1][cbExtend + 1] = Omega], riPairTable>>

JoinRules_LinkerConsonantBreaks ==
    <<[baseTable EXCEPT ![cbInCBLinker + 1][cbInCBConsonant + 1] = Omega], riPairTable>>

JoinRules_ZWJBreaksAfterPair ==
    <<baseTable, [riPairTable EXCEPT ![cbRI + 1][cbZWJ + 1] = Omega]>>

JoinRules_PairStateKept ==
    <<baseTable, [riPairTable EXCEPT ![cbRI + 1][cbExtend + 1] = 1]>>

JoinRules_PrependJoinsControl ==
    <<[baseTable EXCEPT ![cbPrepend + 1][cbControl + 1] = 0],
      [riPairTable EXCEPT ![cbPrepend + 1][cbControl + 1] = 0]>>

JoinRules_HangulBreaksBeforeZWJ ==
    <<[baseTable EXCEPT ![cbHangulL + 1][cbZWJ + 1] = Omega],
      [riPairTable EXCEPT ![cbHangulL + 1][cbZWJ + 1] = Omega]>>

JoinRules_ZWJBreaksBeforeExtPic ==
    <<[baseTable EXCEPT ![cbZWJ + 1][cbExtPic + 1] = Omega],
      [riPairTable EXCEPT ![cbZWJ + 1][cbExtPic + 1] = Omega]>>

JoinRules_PairJoinsThirdRI ==
    <<baseTable, [riPairTable EXCEPT ![cbRI + 1][cbRI + 1] = 0]>>

JoinRules == <<baseTable, riPairTable>>

(***************************************************************************)
(* prepareRulesTable and the generated lookups.                            *)
(***************************************************************************)
\* nextIndices |= uint32(nextIndex) << (trail * 2): the fields are disjoint,
\* so the OR is a sum.
RECURSIVE packRow_OneBitEach(_, _)
packRow_OneBitEach(row, trail) ==
    IF trail >= Len(row) THEN 0
    ELSE row[trail + 1] * Pow2(trail) + packRow_OneBitEach(row, trail + 1)

RECURSIVE packRow(_, _)
packRow(row, trail) ==
    IF trail >= Len(row) THEN 0
    ELSE row[trail + 1] * Pow2(trail * 2) + packRow(row, trail + 1)

packedRowLen == 16

prepareRulesTable(rules) ==
    [prevIndex \in 1..Len(rules) |->
        [lead \in 1..packedRowLen |->
            IF lead <= Len(rules[prevIndex]) THEN packRow(rules[prevIndex][lead], 0) ELSE 0]]

s_joinRules == prepareRulesTable(JoinRules)

\* (s_joinRules[state][lead & 15] >> ((trail & 15) * 2)) & 3
ucdGraphemeJoins(state, lead, trail) ==
    LET l == lead % 16
        t == trail % 16
    IN  ShiftRight(s_joinRules[state + 1][l + 1], t * 2) % 4

ucdGraphemeDone(state) == state = Omega

ucdToCharacterWidth(val) == ShiftRight(val, 6)

(***************************************************************************)
(* The grapheme scan of CodepointWidthDetector (GraphemeNext and           *)
(* GraphemePrev), as the tests call it.  A text is the sequence of the     *)
(* classification values of its code points.                               *)
(***************************************************************************)
RECURSIVE graphemeNextLoop(_, _, _, _, _)
graphemeNextLoop(str, pos, lead, state, width) ==
    IF pos >= Len(str) THEN [offset |-> pos, width |-> width]
    ELSE
        LET trail == str[pos + 1]
            st == ucdGraphemeJoins(state, lead, trail)
        IN  IF ucdGraphemeDone(st) THEN [offset |-> pos, width |-> width]
            ELSE graphemeNextLoop(str, pos + 1, trail, st,
                                  width + ucdToCharacterWidth(trail))

\* The cluster that starts at offset: its end and its width.
GraphemeNext(str, offset) ==
    graphemeNextLoop(str, offset + 1, str[offset + 1], 0,
                     ucdToCharacterWidth(str[offset + 1]))

RECURSIVE graphemePrevLoop(_, _, _, _, _)
graphemePrevLoop(str, pos, trail, state, width) ==
    IF pos = 0 THEN [offset |-> pos, width |-> width]
    ELSE
        LET lead == str[pos]
            st == ucdGraphemeJoins(state, lead, trail)
        IN  IF ucdGraphemeDone(st) THEN [offset |-> pos, width |-> width]
            ELSE graphemePrevLoop(str, pos - 1, lead, st,
                                  width + ucdToCharacterWidth(lead))

\* The cluster that ends at offset: its start and its width.
GraphemePrev(str, offset) ==
    graphemePrevLoop(str, offset - 1, str[offset], 0,
                     ucdToCharacterWidth(str[offset]))

(***************************************************************************)
(* extractValuesFromUCD.  The dense array of 1,114,112 values is kept at   *)
(* the sampled code points only; every cell of the array is written and    *)
(* read independently of the others.                                       *)
(***************************************************************************)
valuesLen == 1114112

\* The ends of the post-pass ranges, their outer neighbours and the ends of
\* the code space.
CodePointSeq ==
    << 0, \h24FF, \h2500, \h259F, \h25A0, \h4DC0, \h4DFF, \hFE0F, \hFE20, \hFE2F,
       \h10FFFF >>

CodePoints == {CodePointSeq[i] : i \in 1..Len(CodePointSeq)}

\* A nil slice: no elements, length 0.
Nil == [len |-> 0, at |-> <<>>]

coalesce(a, b) == IF a # "" THEN a ELSE b

\* strings.HasPrefix
HasPrefix(str, prefix) ==
    Len(str) >= Len(prefix) /\ SubSeq(str, 1, Len(prefix)) = prefix

Unrecognized == -1

\* switch graphemeClusterBreak
clusterBreakOfGCB(gcb) ==
    CASE gcb = "XX" -> cbOther
      [] gcb \in {"CR", "LF", "CN"} -> cbControl
      [] gcb \in {"EX", "SM"} -> cbExtend
      [] gcb = "PP" -> cbPrepend
      [] gcb = "ZWJ" -> cbZWJ
      [] gcb = "RI" -> cbRI
      [] gcb = "L" -> cbHangulL
      [] gcb = "V" -> cbHangulV
      [] gcb = "T" -> cbHangulT
      [] gcb = "LV" -> cbHangulLV
      [] gcb = "LVT" -> cbHangulLVT
      [] OTHER -> Unrecognized

\* switch eastAsian
widthOfEastAsian(ea) ==
    CASE ea \in {"N", "Na", "H"} -> cwNarrow
      [] ea \in {"F", "W"} -> cwWide
      [] ea = "A" -> cwAmbiguous
      [] OTHER -> Unrecognized

isZeroWidthCategory_NoCf(generalCategory) == HasPrefix(generalCategory, "M")

\* strings.HasPrefix(generalCategory, "M") || generalCategory == "Cf"
isZeroWidthCategory(generalCategory) ==
    HasPrefix(generalCategory, "M") \/ generalCategory = "Cf"

firstCpOf(char) ==
    IF char.Codepoint # 0 THEN char.Codepoint ELSE char.FirstCodepoint

lastCpOf(char) ==
    IF char.Codepoint # 0 THEN char.Codepoint ELSE char.LastCodepoint

incbError_Ignored(indicConjunctBreak, cb) ==
    CASE indicConjunctBreak = "Linker" /\ cb # cbExtend -> "unexpected GCB with InCB=Linker"
      [] indicConjunctBreak = "Consonant" /\ cb # cbOther -> "unexpected GCB with InCB=Consonant"
      [] OTHER -> ""

\* switch indicConjunctBreak of CodepointWidthDetector_gen.go: the error it
\* returns, "" when it returns none.  cb is the category after ExtPict.
incbError(indicConjunctBreak, cb) ==
    CASE indicConjunctBreak \in {"None", "Extend"} -> ""
      [] indicConjunctBreak = "Linker" ->
            IF cb # cbExtend THEN "unexpected GCB with InCB=Linker" ELSE ""
      [] indicConjunctBreak = "Consonant" ->
            IF cb # cbOther THEN "unexpected GCB with InCB=Consonant" ELSE ""
      [] OTHER -> "unrecognized InCB"

\* The body of the loop over group.Char up to fillRange: the value the
\* record's range is to be filled with, or the error returned ("" for none).
classify(char, group) ==
    LET generalCategory == coalesce(char.GeneralCategory, group.GeneralCategory)
        graphemeClusterBreak == coalesce(char.GraphemeClusterBreak, group.GraphemeClusterBreak)
        indicConjunctBreak == coalesce(char.IndicConjunctBreak, group.IndicConjunctBreak)
        extendedPictographic == coalesce(char.ExtendedPictographic, group.ExtendedPictographic)
        eastAsian == coalesce(char.EastAsian, group.EastAsian)
        cbOfGCB == clusterBreakOfGCB(graphemeClusterBreak)
        cbAfterExtPict == IF extendedPictographic = "Y" THEN cbExtPic ELSE cbOfGCB
        cb == CASE indicConjunctBreak = "Linker" -> cbInCBLinker
                [] indicConjunctBreak = "Consonant" -> cbInCBConsonant
                [] OTHER -> cbAfterExtPict
        eaWidth == widthOfEastAsian(eastAsian)
        width == IF isZeroWidthCategory(generalCategory) THEN cwZeroWidth ELSE eaWidth
        error ==
            IF cbOfGCB = Unrecognized THEN "unrecognized GCB"
            ELSE IF extendedPictographic = "Y" /\ cbOfGCB # cbOther
                 THEN "unexpected GCB with ExtPict=Y"
            ELSE IF incbError(indicConjunctBreak, cbAfterExtPict) # ""
                 THEN incbError(indicConjunctBreak, cbAfterExtPict)
            ELSE IF eaWidth = Unrecognized THEN "unrecognized ea"
            ELSE ""
    IN  [ error |-> error,
          firstCp |-> firstCpOf(char),
          lastCp |-> lastCpOf(char),
          value |-> IF error = "" THEN trieValue(cb, width) ELSE 0 ]

(***************************************************************************)
(* The same loop body in CodepointWidthDetector_triegen.go, with its own   *)
(* enumeration of cluster breaks.                                          *)
(***************************************************************************)
CW_ZERO_WIDTH == 0
CW_NARROW == 1
CW_WIDE == 2
CW_AMBIGUOUS == 3

CB_OTHER == 0
CB_CONTROL == 1
CB_EXTEND == 2
CB_PREPEND == 3
CB_ZERO_WIDTH_JOINER == 4
CB_REGIONAL_INDICATOR == 5
CB_HANGUL_L == 6
CB_HANGUL_V == 7
CB_HANGUL_T == 8
CB_HANGUL_LV == 9
CB_HANGUL_LVT == 10
CB_CONJUNCT_LINKER == 11
CB_EXTENDED_PICTOGRAPHIC == 12
CB_COUNT == 13

clusterBreakOfGCB_triegen(gcb) ==
    CASE gcb = "XX" -> CB_OTHER
      [] gcb \in {"CR", "LF", "CN"} -> CB_CONTROL
      [] gcb \in {"EX", "SM"} -> CB_EXTEND
      [] gcb = "PP" -> CB_PREPEND
      [] gcb = "ZWJ" -> CB_ZERO_WIDTH_JOINER
      [] gcb = "RI" -> CB_REGIONAL_INDICATOR
      [] gcb = "L" -> CB_HANGUL_L
      [] gcb = "V" -> CB_HANGUL_V
      [] gcb = "T" -> CB_HANGUL_T
      [] gcb = "LV" -> CB_HANGUL_LV
      [] gcb = "LVT" -> CB_HANGUL_LVT
      [] OTHER -> Unrecognized

widthOfEastAsian_triegen(ea) ==
    CASE ea \in {"N", "Na", "H"} -> CW_NARROW
      [] ea \in {"F", "W"} -> CW_WIDE
      [] ea = "A" -> CW_AMBIGUOUS
      [] OTHER -> Unrecognized

classify_triegen(char, group) ==
    LET generalCategory == coalesce(char.GeneralCategory, group.GeneralCategory)
        graphemeClusterBreak == coalesce(char.GraphemeClusterBreak, group.GraphemeClusterBreak)
        indicConjunctBreak == coalesce(char.IndicConjunctBreak, group.IndicConjunctBreak)
        extendedPictographic == coalesce(char.ExtendedPictographic, group.ExtendedPictographic)
        eastAsian == coalesce(char.EastAsian, group.EastAsian)
        cbOfGCB == clusterBreakOfGCB_triegen(graphemeClusterBreak)
        cbAfterExtPict ==
            IF extendedPictographic = "Y" THEN CB_EXTENDED_PICTOGRAPHIC ELSE cbOfGCB
        \* The only test of InCB: if indicConjunctBreak == "Linker".
        cb == IF indicConjunctBreak = "Linker" THEN CB_CONJUNCT_LINKER ELSE cbAfterExtPict
        eaWidth == widthOfEastAsian_triegen(eastAsian)
        width == IF isZeroWidthCategory(generalCategory) THEN CW_ZERO_WIDTH ELSE eaWidth
        error ==
            IF cbOfGCB = Unrecognized THEN "unrecognized GCB"
            ELSE IF extendedPictographic = "Y" /\ cbOfGCB # CB_OTHER
                 THEN "unexpected GCB for ExtPict"
            ELSE IF indicConjunctBreak = "Linker" /\ cbAfterExtPict # CB_EXTEND
                 THEN "unexpected GCB for InCB=Linker"
            ELSE IF eaWidth = Unrecognized THEN "unrecognized ea"
            ELSE ""
    IN  [ error |-> error,
          firstCp |-> firstCpOf(char),
          lastCp |-> lastCpOf(char),
          value |-> IF error = "" THEN trieValue(cb, width) ELSE 0 ]

\* values[lo:hi] panics unless 0 <= lo <= hi <= len(values).
sliceInBounds(lo, hi) == lo <= hi /\ hi <= valuesLen

fillRange_KeepWritten(at, lo, hi, v) ==
    [cp \in DOMAIN at |->
        IF lo <= cp /\ cp < hi /\ at[cp] = trieValue(cbOther, cwNarrow) THEN v ELSE at[cp]]

\* fillRange(values[lo:hi], v)
fillRange(at, lo, hi, v) ==
    [cp \in DOMAIN at |-> IF lo <= cp /\ cp < hi THEN v ELSE at[cp]]

postPass_BoxDrawingOnly(at) ==
    fillRange(at, \h2500, \h259F + 1, trieValue(cbOther, cwNarrow))

\* The fixed ranges written after all records.
postPass(at) ==
    LET box == fillRange(at, \h2500, \h259F + 1, trieValue(cbOther, cwNarrow))
    IN  fillRange(box, \hFE0F, \hFE0F + 1, trieValue(cbExtend, cwWide))

postPass_triegen(at) ==
    LET box == fillRange(at, \h2500, \h259F + 1, trieValue(CB_OTHER, CW_NARROW))
        hexagrams == fillRange(box, \h4DC0, \h4DFF + 1, trieValue(CB_OTHER, CW_NARROW))
    IN  fillRange(hexagrams, \hFE20, \hFE2F + 1, trieValue(CB_OTHER, CW_NARROW))

\* The code points the fixed ranges written after all records cover.
inPostPassRange(cp) ==
    (\h2500 <= cp /\ cp <= \h259F) \/ cp = \hFE0F

inPostPassRange_triegen(cp) ==
    \/ \h2500 <= cp /\ cp <= \h259F
    \/ \h4DC0 <= cp /\ cp <= \h4DFF
    \/ \hFE20 <= cp /\ cp <= \hFE2F

\* make([]TrieType, 1114112) and fillRange(values, trieValue(cbOther, cwNarrow))
newValues ==
    [len |-> valuesLen, at |-> [cp \in CodePoints |-> trieValue(cbOther, cwNarrow)]]

(***************************************************************************)
(* buildBestTrie and the sanity check of run().  The trie is built over    *)
(* the dense array at the sampled code points, numbered in order, so the   *)
(* `code point' of the trie is the number of the sample.                   *)
(***************************************************************************)
dense(vals) == [i \in 1..Len(CodePointSeq) |-> vals.at[CodePointSeq[i]]]

shiftsOfIteration_SameDigit(i, delta, minShift, count) ==
    [j \in 1..count |-> minShift + (i % delta)]

\* shifts[j] = minShift + i%delta; i /= delta
RECURSIVE shiftsOfIteration(_, _, _, _)
shiftsOfIteration(i, delta, minShift, count) ==
    IF count = 0 THEN <<>>
    ELSE <<minShift + (i % delta)>>
            \o shiftsOfIteration(i \div delta, delta, minShift, count - 1)

\* iters := 1; for i := 1; i < stages; i++ { iters *= delta }
RECURSIVE iterationCount(_, _)
iterationCount(delta, stages) ==
    IF stages <= 1 THEN 1 ELSE delta * iterationCount(delta, stages - 1)

\* The tries sent to the results channel, one per goroutine.
candidateTries(unc, minShift, maxShift, stages) ==
    LET delta == maxShift - minShift + 1
    IN  { buildTrie(unc, shiftsOfIteration(i, delta, minShift, stages - 1)) :
            i \in 0..(iterationCount(delta, stages) - 1) }

\* The tries buildBestTrie can return: the results arrive in any order and
\* bestTrie is replaced only by a strictly smaller one, so it is the first
\* received of the smallest.
buildBestTrie(unc, minShift, maxShift, stages) ==
    LET candidates == candidateTries(unc, minShift, maxShift, stages)
    IN  { t \in candidates : \A u \in candidates : t.TotalSize <= u.TotalSize }

smallerTrie_LastOfEqual(best, t) ==
    IF best.TotalSize >= t.TotalSize THEN t ELSE best

\* if bestTrie.TotalSize > t.TotalSize { bestTrie = t }
smallerTrie(best, t) ==
    IF best.TotalSize > t.TotalSize THEN t ELSE best

collectLoopCondition_FromOne(i, iters) == i + 1 < iters

\* for i := 0; i < iters; i++ of the second loop of buildBestTrie
collectLoopCondition(i, iters) == i < iters

\* bestTrie := &Trie{TotalSize: math.MaxInt}, math.MaxInt being cut to the
\* greatest integer of the model.
MaxIntTotalSize == 2147483647

sanityCheck_Skipped(stages, expected) == [outcome |-> "ok", cp |-> 0]

\* for cp, expected := range values { ... if v != expected { return error } }
sanityCheck(stages, expected) ==
    LET bad == { cp \in 0..(Len(expected) - 1) :
                    trieLookup(stages, cp, 0) # expected[cp + 1] }
    IN  IF bad = {} THEN [outcome |-> "ok", cp |-> 0]
        ELSE LET cp == SetMin(bad)
             IN  IF trieLookup(stages, cp, 0) = LookupPanic
                 THEN [outcome |-> "panic", cp |-> cp]
                 ELSE [outcome |-> "mismatch", cp |-> cp]

\* The exit status of a Go program that panics.
panicExitCode == 2

(***************************************************************************)
(* buildJoinRules of CodepointWidthDetector_triegen.go and the lookup of   *)
(* the table it returns.  rules is an array of arrays of bool: a value,    *)
(* copied when it is assigned or ranged over.                              *)
(***************************************************************************)
ClusterBreaks == 0..(CB_COUNT - 1)

\* var rules [CB_COUNT][CB_COUNT]bool
zeroRules == [l \in 1..CB_COUNT |-> [t \in 1..CB_COUNT |-> FALSE]]

setCell_Transposed(rs, l, t, v) == [rs EXCEPT ![t + 1][l + 1] = v]

\* rules[l][t] = v
setCell(rs, l, t, v) == [rs EXCEPT ![l + 1][t + 1] = v]

\* fillRange(rules[l][:], v): the slice shares the row's storage.
fillRow(rs, l, v) == [rs EXCEPT ![l + 1] = [t \in DOMAIN rs[l + 1] |-> v]]

\* for _, lead := range rules { lead[t] = v }
\* The range clause copies the array and lead is a copy of one of its rows:
\* each turn writes into lead, which is dropped when the turn ends, and the
\* rows of rules stay as they were.
setColumn(rs, t, v) ==
    LET lead == [l \in DOMAIN rs |-> [rs[l] EXCEPT ![t + 1] = v]]
    IN  rs

buildJoinRules ==
    LET gb13 == setCell(zeroRules, CB_REGIONAL_INDICATOR, CB_REGIONAL_INDICATOR, TRUE)
        gb11 == setCell(gb13, CB_ZERO_WIDTH_JOINER, CB_EXTENDED_PICTOGRAPHIC, TRUE)
        gb9c == setColumn(fillRow(gb11, CB_CONJUNCT_LINKER, TRUE), CB_CONJUNCT_LINKER, TRUE)
        gb9b == fillRow(gb9c, CB_PREPEND, TRUE)
        gb9 == setColumn(setColumn(gb9b, CB_EXTEND, TRUE), CB_ZERO_WIDTH_JOINER, TRUE)
        gb8 == setCell(setCell(gb9, CB_HANGUL_LVT, CB_HANGUL_T, TRUE),
                       CB_HANGUL_T, CB_HANGUL_T, TRUE)
        gb7 == setCell(setCell(setCell(setCell(gb8,
                       CB_HANGUL_LV, CB_HANGUL_T, TRUE),
                       CB_HANGUL_LV, CB_HANGUL_V, TRUE),
                       CB_HANGUL_V, CB_HANGUL_V, TRUE),
                       CB_HANGUL_V, CB_HANGUL_T, TRUE)
        gb6 == setCell(setCell(setCell(setCell(gb7,
                       CB_HANGUL_L, CB_HANGUL_L, TRUE),
                       CB_HANGUL_L, CB_HANGUL_V, TRUE),
                       CB_HANGUL_L, CB_HANGUL_LV, TRUE),
                       CB_HANGUL_L, CB_HANGUL_LVT, TRUE)
        gb5 == setColumn(gb6, CB_CONTROL, FALSE)
        gb4 == fillRow(gb5, CB_CONTROL, FALSE)
    IN  gb4

\* The rows written by run(): 1 for true, 0 for false.
s_joinRules_triegen(rs) ==
    [l \in DOMAIN rs |-> [t \in DOMAIN rs[l] |-> IF rs[l][t] THEN 1 ELSE 0]]

\* s_joinRules[lead & 15][trail & 15]
ucdGraphemeJoins_triegen(rs, lead, trail) ==
    s_joinRules_triegen(rs)[(lead % 16) + 1][(trail % 16) + 1]

(***************************************************************************)
(* CConsoleTSF: the composition sink (ConsoleTSF.cpp).                     *)
(***************************************************************************)
\* if (!_pConversionArea || (_cCompositions > 0 && !_fModifyingDoc))
startRefused(count, area, modifying) == ~area \/ (count > 0 /\ ~modifying)

endRefused_WithoutAreaOnly(count, area) == ~area

\* if (_cCompositions <= 0 || !_pConversionArea)
endRefused(count, area) == count <= 0 \/ ~area

(***************************************************************************)
(*                          S P E C I F I C A T I O N S                    *)
(***************************************************************************)
\* The parts of the state a specification does not use stay at these values.
NoTrie == [Stages |-> <<>>, TotalSize |-> 0]

TrieIdle ==
    /\ littleEndian = TRUE
    /\ uncompressed = <<>>
    /\ shifts = <<>>
    /\ builder = "none"
    /\ trie = NoTrie

ScanIdle ==
    /\ text = <<>>
    /\ phase = "idle"
    /\ scanPos = 0
    /\ fwdAdvances = <<>>
    /\ fwdWidths = <<>>
    /\ bwdAdvances = <<>>
    /\ bwdWidths = <<>>

Running == "running"

NoError == [msg |-> "", firstCp |-> 0, lastCp |-> 0]

RunIdle ==
    /\ generator = "none"
    /\ pc = "idle"
    /\ osArgs = 0
    /\ file = "none"
    /\ ucd = <<>>
    /\ values = Nil
    /\ err = NoError
    /\ stdout = <<>>
    /\ exitCode = Running

NoVerdict == -1

NoCall == [callback |-> "none", appOwned |-> FALSE, hr |-> "S_OK", pfOk |-> FALSE]

\* CConsoleTSF as constructed.
TsfIdle ==
    /\ cCompositions = 0
    /\ fModifyingDoc = FALSE
    /\ pConversionArea = FALSE
    /\ imeCalls = <<>>
    /\ lastCall = NoCall

FindIdle ==
    /\ findHaystack = <<>>
    /\ findNeedle = <<>>
    /\ findResult = -1
    /\ findPc = "idle"

RulesIdle ==
    /\ rulesTable = <<>>
    /\ rulesPc = "idle"
    /\ leadValue = 0
    /\ trailValue = 0
    /\ joinVerdict = NoVerdict

BestIdle ==
    /\ bestArgs = [minShift |-> 0, maxShift |-> 0, stages |-> 0]
    /\ workers = <<>>
    /\ spawned = 0
    /\ received = 0
    /\ bestTrie = NoTrie
    /\ bestPc = "idle"

(***************************************************************************)
(* Specification of the two trie builders as pure functions: the inputs    *)
(* are drawn in the initial state and one of the builders is applied.      *)
(***************************************************************************)
TrieInputs == SeqsUpTo(ValueAlphabet, MaxValuesLen)

ShiftLists == SeqsUpTo(1..MaxShift, MaxShiftCount)

InitTrie ==
    /\ littleEndian \in BOOLEAN
    /\ uncompressed \in TrieInputs
    /\ shifts \in ShiftLists
    /\ builder = "none"
    /\ trie = NoTrie
    /\ ScanIdle
    /\ RunIdle
    /\ BestIdle
    /\ RulesIdle
    /\ FindIdle
    /\ TsfIdle

BuildTrieGen ==
    /\ builder = "none"
    /\ trie' = buildTrie(uncompressed, shifts)
    /\ builder' = "gen"
    /\ UNCHANGED <<littleEndian, uncompressed, shifts, scanVars, runVars, bestVars, rulesVars, findVars, tsfVars>>

BuildTrieTriegen ==
    /\ builder = "none"
    /\ trie' = buildTrie_triegen(uncompressed, shifts)
    /\ builder' = "triegen"
    /\ UNCHANGED <<littleEndian, uncompressed, shifts, scanVars, runVars, bestVars, rulesVars, findVars, tsfVars>>

NextTrie ==
    \/ BuildTrieGen
    \/ BuildTrieTriegen

SpecTrie == InitTrie /\ [][NextTrie]_vars

(***************************************************************************)
(* Specification of the grapheme scan: the loops of the tests, first       *)
(* GraphemeNext from offset 0 to the end of the text, then GraphemePrev    *)
(* from the end back to offset 0.                                          *)
(***************************************************************************)
MaxTextLen == 3

\* One code point of each cluster-break category, with the width the UCD
\* gives it: a, U+000A, U+0363, U+1F1E6, U+0600, U+1100, U+1160, U+11A8,
\* U+AC00, U+AC01, U+094D, U+0915, U+1F600, U+200D.
TextAlphabet ==
    { trieValue(cbOther, cwNarrow), trieValue(cbControl, cwNarrow),
      trieValue(cbExtend, cwZeroWidth), trieValue(cbRI, cwNarrow),
      trieValue(cbPrepend, cwZeroWidth), trieValue(cbHangulL, cwWide),
      trieValue(cbHangulV, cwNarrow), trieValue(cbHangulT, cwNarrow),
      trieValue(cbHangulLV, cwWide), trieValue(cbHangulLVT, cwWide),
      trieValue(cbInCBLinker, cwZeroWidth), trieValue(cbInCBConsonant, cwNarrow),
      trieValue(cbExtPic, cwWide), trieValue(cbZWJ, cwZeroWidth) }

\* L"a\u0363e\u0364\u0364i\u0365" of the test Graphemes
GraphemesText ==
    << trieValue(cbOther, cwNarrow), trieValue(cbExtend, cwZeroWidth),
       trieValue(cbOther, cwNarrow), trieValue(cbExtend, cwZeroWidth),
       trieValue(cbExtend, cwZeroWidth),
       trieValue(cbOther, cwNarrow), trieValue(cbExtend, cwZeroWidth) >>

\* L"\u0915\u094D\u094D\u0924" of the test DevanagariConjunctLinker
DevanagariText ==
    << trieValue(cbInCBConsonant, cwNarrow), trieValue(cbInCBLinker, cwZeroWidth),
       trieValue(cbInCBLinker, cwZeroWidth), trieValue(cbInCBConsonant, cwNarrow) >>

\* Four and five Regional Indicators in a row.
RegionalIndicatorTexts ==
    { [i \in 1..n |-> trieValue(cbRI, cwNarrow)] : n \in {4, 5} }

Texts ==
    SeqsUpTo(TextAlphabet, MaxTextLen)
        \cup {GraphemesText, DevanagariText} \cup RegionalIndicatorTexts

InitScan ==
    /\ text \in Texts
    /\ phase = "forward"
    /\ scanPos = 0
    /\ fwdAdvances = <<>>
    /\ fwdWidths = <<>>
    /\ bwdAdvances = <<>>
    /\ bwdWidths = <<>>
    /\ TrieIdle
    /\ RunIdle
    /\ BestIdle
    /\ RulesIdle
    /\ FindIdle
    /\ TsfIdle

\* One turn of  for (beg = 0; beg < text.size();) { end = GraphemeNext(...) }
ScanForward ==
    /\ phase = "forward"
    /\ LET r == GraphemeNext(text, scanPos)
       IN  /\ fwdAdvances' = Append(fwdAdvances, r.offset - scanPos)
           /\ fwdWidths' = Append(fwdWidths, r.width)
           /\ IF r.offset < Len(text)
              THEN scanPos' = r.offset /\ phase' = "forward"
              ELSE scanPos' = Len(text) /\ phase' = "backward"
    /\ UNCHANGED <<text, bwdAdvances, bwdWidths, trieVars, runVars, bestVars, rulesVars, findVars, tsfVars>>

\* One turn of  for (end = text.size(); end > 0;) { beg = GraphemePrev(...) },
\* with the std::reverse of both vectors once the loop ends.
ScanBackward ==
    /\ phase = "backward"
    /\ LET r == GraphemePrev(text, scanPos)
           advances == Append(bwdAdvances, scanPos - r.offset)
           widths == Append(bwdWidths, r.width)
       IN  /\ scanPos' = r.offset
           /\ IF r.offset > 0
              THEN bwdAdvances' = advances /\ bwdWidths' = widths /\ phase' = "backward"
              ELSE /\ bwdAdvances' = Reverse(advances)
                   /\ bwdWidths' = Reverse(widths)
                   /\ phase' = "done"
    /\ UNCHANGED <<text, fwdAdvances, fwdWidths, trieVars, runVars, bestVars, rulesVars, findVars, tsfVars>>

NextScan ==
    \/ ScanForward
    \/ ScanBackward

SpecScan == InitScan /\ [][NextScan]_vars

(***************************************************************************)
(* The UCD records fed to extractValuesFromUCD.  A record is a <char> (or  *)
(* <reserved>, <surrogate>, <noncharacter>) element with the attributes of *)
(* its enclosing <group>.                                                  *)
(***************************************************************************)
MaxRecords == 2

Attrs(gc, gcb, incb, extPict, ea) ==
    [ GeneralCategory |-> gc, GraphemeClusterBreak |-> gcb, IndicConjunctBreak |-> incb,
      ExtendedPictographic |-> extPict, EastAsian |-> ea ]

NoAttrs == Attrs("", "", "", "", "")

\* A group whose every attribute differs from what any record here sets.
DecoyGroup == Attrs("Zs", "CN", "Extend", "N", "A")

single(cp) == [Codepoint |-> cp, FirstCodepoint |-> 0, LastCodepoint |-> 0]

range(first, last) == [Codepoint |-> 0, FirstCodepoint |-> first, LastCodepoint |-> last]

Record(rng, own, group) ==
    [ Codepoint |-> rng.Codepoint, FirstCodepoint |-> rng.FirstCodepoint,
      LastCodepoint |-> rng.LastCodepoint,
      GeneralCategory |-> own.GeneralCategory,
      GraphemeClusterBreak |-> own.GraphemeClusterBreak,
      IndicConjunctBreak |-> own.IndicConjunctBreak,
      ExtendedPictographic |-> own.ExtendedPictographic,
      EastAsian |-> own.EastAsian,
      group |-> group ]

\* The record states its attributes itself / inherits them all from its group.
OwnRecord(rng, attrs) == Record(rng, attrs, DecoyGroup)

InheritingRecord(rng, attrs) == Record(rng, NoAttrs, attrs)

WholeCodeSpace == range(0, \h10FFFF)

GCBValues ==
    { "XX", "CR", "LF", "CN", "EX", "SM", "PP", "ZWJ", "RI", "L", "V", "T", "LV", "LVT",
      "ZZ", "" }

\* Every GCB value, recognized or not.
GCBProfiles == { Attrs("Lo", gcb, "None", "N", "N") : gcb \in GCBValues }

\* ExtPict=Y and every InCB value, recognized or not, on the categories Other
\* and Extend.
InCBProfiles ==
    { Attrs("Lo", gcb, incb, extPict, "N") :
        gcb \in {"XX", "EX"},
        incb \in {"None", "Extend", "Linker", "Consonant", "ZZ", ""},
        extPict \in {"N", "Y"} }

\* Every ea value, recognized or not, under general categories in and out of
\* the zero-width ones.
WidthProfiles ==
    { Attrs(gc, "XX", "None", "N", ea) :
        gc \in {"Lo", "Mn", "Cf"}, ea \in {"N", "Na", "H", "F", "W", "A", "ZZ", ""} }
      \cup { Attrs(gc, "EX", "None", "N", "W") : gc \in {"Mc", "Me", "Mn", "C", "f", ""} }

\* Records with distinct classifications laid over each other.
OverlapProfiles ==
    { Attrs("Lo", "XX", "None", "N", "W"), Attrs("Mn", "EX", "None", "N", "A"),
      Attrs("Lo", "XX", "None", "N", "N") }

OverlapRanges ==
    { single(\hFE0F), single(\h10FFFF), range(\h24FF, \h2500), range(\h259F, \h4DC0),
      range(\h4DFF, \hFE20), range(\hFE2F, \h10FFFF),
      \* the empty slice values[0x2500:0x2500]
      range(\h2500, \h24FF),
      \* slices out of bounds
      range(\h25A0, \h24FF), range(\h4DC0, \h110000) }

InheritingRanges == { range(\hFE20, \h10FFFF) }

\* A document older than the InCB property, and an element without attributes.
BareRecords ==
    { Record(single(\h10FFFF), Attrs("Lo", "XX", "", "N", "N"), NoAttrs),
      Record(single(\h10FFFF), NoAttrs, NoAttrs) }

Records ==
    BareRecords \cup
    { OwnRecord(WholeCodeSpace, a) : a \in GCBProfiles \cup InCBProfiles \cup WidthProfiles }
      \cup { OwnRecord(r, a) : r \in OverlapRanges, a \in OverlapProfiles }
      \cup { InheritingRecord(r, a) : r \in InheritingRanges, a \in OverlapProfiles }

classifyBy(gen, char) ==
    IF gen = "gen" THEN classify(char, char.group) ELSE classify_triegen(char, char.group)

(***************************************************************************)
(* Steps of extractValuesFromUCD, shared by the two specifications below.  *)
(***************************************************************************)
\* One turn of the loop over group.Char, the next record being any of S.
ExtractChar(S) ==
    /\ pc = "extract"
    /\ Len(ucd) < MaxRecords
    /\ \E char \in S :
        LET c == classifyBy(generator, char)
        IN  /\ ucd' = Append(ucd, char)
            /\ IF c.error # ""
               THEN /\ values' = Nil
                    /\ err' = [msg |-> c.error, firstCp |-> c.firstCp, lastCp |-> c.lastCp]
                    /\ pc' = "failed"
                    /\ UNCHANGED exitCode
               ELSE IF ~sliceInBounds(c.firstCp, c.lastCp + 1)
               THEN /\ pc' = "exit"
                    /\ exitCode' = panicExitCode
                    /\ UNCHANGED <<values, err>>
               ELSE /\ values' = [values EXCEPT !.at = fillRange(@, c.firstCp, c.lastCp + 1, c.value)]
                    /\ UNCHANGED <<pc, err, exitCode>>
    /\ UNCHANGED <<generator, osArgs, file, stdout, trieVars, scanVars, bestVars, rulesVars, findVars, tsfVars>>

\* The end of the document: the fixed ranges, then return values, nil.
ExtractDone ==
    /\ pc = "extract"
    /\ values' = [values EXCEPT !.at = IF generator = "gen" THEN postPass(@)
                                       ELSE postPass_triegen(@)]
    /\ pc' = "extracted"
    /\ UNCHANGED <<generator, osArgs, file, ucd, err, stdout, exitCode, trieVars, scanVars, bestVars, rulesVars, findVars, tsfVars>>

(***************************************************************************)
(* Specification of extractValuesFromUCD of either generator, from its     *)
(* entry to its return.                                                    *)
(***************************************************************************)
InitExtract ==
    /\ generator \in {"gen", "triegen"}
    /\ pc = "extract"
    /\ osArgs = 2
    /\ file = "ucd"
    /\ ucd = <<>>
    /\ values = newValues
    /\ err = NoError
    /\ stdout = <<>>
    /\ exitCode = Running
    /\ TrieIdle
    /\ ScanIdle
    /\ BestIdle
    /\ RulesIdle
    /\ FindIdle
    /\ TsfIdle

NextExtract ==
    \/ ExtractChar(Records)
    \/ ExtractDone

SpecExtract == InitExtract /\ [][NextExtract]_vars

(***************************************************************************)
(* Specification of a whole run of either generator: main and run().       *)
(***************************************************************************)
RunRecords ==
    { OwnRecord(WholeCodeSpace, Attrs("Lo", "EX", "None", "N", "W")),
      OwnRecord(range(\hFE2F, \h10FFFF), Attrs("Mn", "XX", "None", "N", "N")),
      OwnRecord(single(\h4DFF), Attrs("Mn", "EX", "Linker", "N", "N")),
      OwnRecord(single(\hFE0F), Attrs("Lo", "ZZ", "None", "N", "N")),
      OwnRecord(single(\hFE0F), Attrs("Lo", "XX", "ZZ", "N", "N")),
      OwnRecord(single(\hFE0F), Attrs("Lo", "XX", "None", "N", "ZZ")),
      OwnRecord(range(\h4DC0, \h110000), Attrs("Lo", "XX", "None", "N", "N")) }

InitRun ==
    /\ generator \in {"gen", "triegen"}
    /\ pc = "start"
    /\ osArgs \in {1, 2}
    /\ file \in {"unreadable", "malformed", "ucd"}
    /\ ucd = <<>>
    /\ values = Nil
    /\ err = NoError
    /\ stdout = <<>>
    /\ exitCode = Running
    /\ littleEndian \in BOOLEAN
    /\ uncompressed = <<>>
    /\ shifts = <<>>
    /\ builder = "none"
    /\ trie = NoTrie
    /\ ScanIdle
    /\ BestIdle
    /\ RulesIdle
    /\ FindIdle
    /\ TsfIdle

\* run() up to the call of extractValuesFromUCD: the usage text and
\* os.Exit(1), os.ReadFile, xml.Unmarshal.
Startup ==
    /\ pc = "start"
    /\ IF osArgs <= 1
       THEN /\ stdout' = Append(stdout, "usage")
            /\ exitCode' = 1
            /\ pc' = "exit"
            /\ UNCHANGED <<values, err>>
       ELSE IF file = "unreadable"
       THEN /\ err' = [NoError EXCEPT !.msg = "failed to read XML"]
            /\ pc' = "failed"
            /\ UNCHANGED <<values, stdout, exitCode>>
       ELSE IF file = "malformed"
       THEN /\ err' = [NoError EXCEPT !.msg = "failed to parse XML"]
            /\ pc' = "failed"
            /\ UNCHANGED <<values, stdout, exitCode>>
       ELSE /\ values' = newValues
            /\ pc' = "extract"
            /\ UNCHANGED <<err, stdout, exitCode>>
    /\ UNCHANGED <<generator, osArgs, file, ucd, trieVars, scanVars, bestVars, rulesVars, findVars, tsfVars>>

\* trie := buildBestTrie(values, 2, 8, 4)  /  stages := buildTrie(values, []int{4, 4, 4})
BuildTries ==
    /\ pc = "extracted"
    /\ uncompressed' = dense(values)
    /\ IF generator = "gen"
       THEN /\ trie' \in buildBestTrie(dense(values), 1, MaxShift, MaxShiftCount + 1)
            /\ shifts' = <<>>
       ELSE /\ shifts' = [i \in 1..MaxShiftCount |-> MaxShift]
            /\ trie' = buildTrie_triegen(dense(values), shifts')
    /\ builder' = generator
    /\ pc' = "built"
    /\ UNCHANGED <<littleEndian, generator, osArgs, file, ucd, values, err, stdout, exitCode,
                   scanVars, bestVars, rulesVars, findVars, tsfVars>>

\* The sanity check of run().
SanityCheck ==
    /\ pc = "built"
    /\ LET check == sanityCheck(trie.Stages, uncompressed)
       IN  CASE check.outcome = "ok" ->
                    /\ pc' = "checked"
                    /\ UNCHANGED <<err, exitCode>>
             [] check.outcome = "mismatch" ->
                    /\ err' = [msg |-> "trie sanity check failed",
                               firstCp |-> check.cp, lastCp |-> check.cp]
                    /\ pc' = "failed"
                    /\ UNCHANGED exitCode
             [] check.outcome = "panic" ->
                    /\ pc' = "exit"
                    /\ exitCode' = panicExitCode
                    /\ UNCHANGED err
    /\ UNCHANGED <<generator, osArgs, file, ucd, values, stdout, trieVars, scanVars, bestVars, rulesVars, findVars, tsfVars>>

\* The rest of run(): the text is built in buf and written in one call;
\* run returns nil and main returns.
Emit ==
    /\ pc = "checked"
    /\ stdout' = Append(stdout, "tables")
    /\ exitCode' = 0
    /\ pc' = "exit"
    /\ UNCHANGED <<generator, osArgs, file, ucd, values, err, trieVars, scanVars, bestVars, rulesVars, findVars, tsfVars>>

\* main: if err := run(); err != nil { fmt.Println(err); os.Exit(1) }
ReportError ==
    /\ pc = "failed"
    /\ stdout' = Append(stdout, "error")
    /\ exitCode' = 1
    /\ pc' = "exit"
    /\ UNCHANGED <<generator, osArgs, file, ucd, values, err, trieVars, scanVars, bestVars, rulesVars, findVars, tsfVars>>

NextRun ==
    \/ Startup
    \/ ExtractChar(RunRecords)
    \/ ExtractDone
    \/ BuildTries
    \/ SanityCheck
    \/ Emit
    \/ ReportError

SpecRun == InitRun /\ [][NextRun]_vars

(***************************************************************************)
(* Specification of buildBestTrie with its goroutines: the first loop      *)
(* starts one goroutine per i, each builds its trie and sends it on the    *)
(* unbuffered channel results; the second loop receives iters results.  A  *)
(* send and its receive are one step.                                      *)
(***************************************************************************)
MaxIters == 4

\* Arrays of the greatest length over two values.
BestInputs == { a \in SeqsUpTo({0, 1}, MaxValuesLen) : Len(a) = MaxValuesLen }

itersOf(args) == iterationCount(args.maxShift - args.minShift + 1, args.stages)

BestArgs ==
    { args \in [minShift : 1..MaxIters, maxShift : 1..MaxIters, stages : 1..MaxIters] :
        args.minShift <= args.maxShift /\ itersOf(args) <= MaxIters }

NotStarted == [pc |-> "unspawned", shifts |-> <<>>, result |-> NoTrie, sent |-> 0]

InitBest ==
    /\ littleEndian \in BOOLEAN
    /\ uncompressed \in BestInputs
    /\ shifts = <<>>
    /\ builder = "none"
    /\ trie = NoTrie
    /\ bestArgs \in BestArgs
    /\ workers = [i \in 0..(itersOf(bestArgs) - 1) |-> NotStarted]
    /\ spawned = 0
    /\ received = 0
    /\ bestTrie = [Stages |-> <<>>, TotalSize |-> MaxIntTotalSize]
    /\ bestPc = "spawning"
    /\ ScanIdle
    /\ RulesIdle
    /\ FindIdle
    /\ TsfIdle
    /\ RunIdle

\* One turn of the first loop: go func(i int) { ... }(i)
Spawn ==
    /\ bestPc = "spawning"
    /\ workers' = [workers EXCEPT ![spawned].pc = "running"]
    /\ spawned' = spawned + 1
    /\ bestPc' = IF spawned + 1 < itersOf(bestArgs) THEN "spawning" ELSE "collecting"
    /\ UNCHANGED <<bestArgs, received, bestTrie, trieVars, scanVars, runVars, rulesVars, findVars, tsfVars>>

\* Goroutine i up to its send: its shifts and buildTrie(uncompressed, shifts).
Work(i) ==
    /\ workers[i].pc = "running"
    /\ LET delta == bestArgs.maxShift - bestArgs.minShift + 1
           shs == shiftsOfIteration(i, delta, bestArgs.minShift, bestArgs.stages - 1)
       IN  /\ workers' = [workers EXCEPT ![i] = [pc |-> "sending", shifts |-> shs,
                                                result |-> buildTrie(uncompressed, shs),
                                                sent |-> 0]]
           /\ uncompressed' = inputAfterBuildTrie(uncompressed, shs)
    /\ UNCHANGED <<bestArgs, spawned, received, bestTrie, bestPc, littleEndian, shifts, builder,
                   trie, scanVars, runVars, rulesVars, findVars, tsfVars>>

\* results <- ... of goroutine i meeting t := <-results of one turn of the
\* second loop, with the comparison that follows.
Receive(i) ==
    /\ bestPc = "collecting"
    /\ collectLoopCondition(received, itersOf(bestArgs))
    /\ workers[i].pc = "sending"
    /\ workers' = [workers EXCEPT ![i].pc = "done", ![i].sent = @ + 1]
    /\ received' = received + 1
    /\ bestTrie' = smallerTrie(bestTrie, workers[i].result)
    /\ UNCHANGED <<bestArgs, spawned, bestPc, trieVars, scanVars, runVars, rulesVars, findVars, tsfVars>>

\* return bestTrie
ReturnBest ==
    /\ bestPc = "collecting"
    /\ ~collectLoopCondition(received, itersOf(bestArgs))
    /\ bestPc' = "returned"
    /\ UNCHANGED <<bestArgs, workers, spawned, received, bestTrie, trieVars, scanVars, runVars, rulesVars, findVars, tsfVars>>

NextBest ==
    \/ Spawn
    \/ \E i \in DOMAIN workers : Work(i)
    \/ \E i \in DOMAIN workers : Receive(i)
    \/ ReturnBest

SpecBest == InitBest /\ [][NextBest]_vars

noWorkerRunning == \A i \in DOMAIN workers : workers[i].pc # "running"

\* The Go scheduler lets every goroutine that can run do so: the calling
\* goroutine goes on through its loops and meets a sender that waits, and a
\* started goroutine gets through buildTrie, whose loops are bounded by the
\* lengths of its inputs.
SpecBestFair ==
    /\ SpecBest
    /\ WF_vars(Spawn)
    /\ WF_vars(\E i \in DOMAIN workers : Receive(i))
    /\ WF_vars(ReturnBest)
    /\ []<>noWorkerRunning

(***************************************************************************)
(* Specification of the simple generator's join rules: run() calls         *)
(* buildJoinRules once and writes the table; the scanner then asks it      *)
(* about a leading and a trailing classification value.                    *)
(***************************************************************************)
\* One classification value per cluster-break category.
RuleArguments == {trieValue(cb, CW_NARROW) : cb \in ClusterBreaks}

InitRules ==
    /\ rulesTable = zeroRules
    /\ rulesPc = "start"
    /\ leadValue \in RuleArguments
    /\ trailValue \in RuleArguments
    /\ joinVerdict = NoVerdict
    /\ TrieIdle
    /\ ScanIdle
    /\ RunIdle
    /\ BestIdle
    /\ FindIdle
    /\ TsfIdle

BuildJoinRules ==
    /\ rulesPc = "start"
    /\ rulesTable' = buildJoinRules
    /\ rulesPc' = "built"
    /\ UNCHANGED <<leadValue, trailValue, joinVerdict, trieVars, scanVars, runVars, bestVars, findVars, tsfVars>>

LookupJoinRules ==
    /\ rulesPc = "built"
    /\ joinVerdict' = ucdGraphemeJoins_triegen(rulesTable, leadValue, trailValue)
    /\ rulesPc' = "looked up"
    /\ UNCHANGED <<rulesTable, leadValue, trailValue, trieVars, scanVars, runVars, bestVars, findVars, tsfVars>>

NextRules ==
    \/ BuildJoinRules
    \/ LookupJoinRules

SpecRules == InitRules /\ [][NextRules]_vars

(***************************************************************************)
(* Specification of findExisting: buildTrie calls it with the compressed   *)
(* stage built so far and a chunk that is not in the cache.                *)
(***************************************************************************)
MaxHaystackLen == 3
MaxNeedleLen == 2

Haystacks == SeqsUpTo(ValueAlphabet, MaxHaystackLen)

Needles == SeqsUpTo(ValueAlphabet, MaxNeedleLen)

InitFind ==
    /\ littleEndian \in BOOLEAN
    /\ uncompressed = <<>>
    /\ shifts = <<>>
    /\ builder = "none"
    /\ trie = NoTrie
    /\ findHaystack \in Haystacks
    /\ findNeedle \in Needles
    /\ findResult = -1
    /\ findPc = "called"
    /\ ScanIdle
    /\ RunIdle
    /\ BestIdle
    /\ RulesIdle
    /\ TsfIdle

FindExisting ==
    /\ findPc = "called"
    /\ findResult' = findExisting(findHaystack, findNeedle)
    /\ findPc' = "returned"
    /\ UNCHANGED <<findHaystack, findNeedle, trieVars, scanVars, runVars, bestVars, rulesVars, tsfVars>>

NextFind == FindExisting

SpecFind == InitFind /\ [][NextFind]_vars

(***************************************************************************)
(* Specification of CConsoleTSF's composition callbacks.  The text service *)
(* framework calls OnStartComposition / OnEndComposition in any order,     *)
(* with a composition owned by a text service or by the application;       *)
(* OnActivated makes the conversion area; _ClearTextInRange raises and     *)
(* lowers _fModifyingDoc around its SetText.  The edit sessions a handler  *)
(* requests touch neither the counter nor the flag's value at its return.  *)
(***************************************************************************)
MaxCompositions == 4
MaxImeCalls == 6

InitTSF ==
    /\ cCompositions = 0
    /\ fModifyingDoc = FALSE
    /\ pConversionArea = FALSE
    /\ imeCalls = <<>>
    /\ lastCall = NoCall
    /\ TrieIdle
    /\ ScanIdle
    /\ RunIdle
    /\ BestIdle
    /\ RulesIdle
    /\ FindIdle

OnActivated ==
    /\ ~pConversionArea
    /\ pConversionArea' = TRUE
    /\ UNCHANGED <<cCompositions, fModifyingDoc, imeCalls, lastCall,
                   trieVars, scanVars, runVars, bestVars, rulesVars, findVars>>

SetModifyingDocFlag(fSet) ==
    /\ fModifyingDoc' = fSet
    /\ UNCHANGED <<cCompositions, pConversionArea, imeCalls, lastCall,
                   trieVars, scanVars, runVars, bestVars, rulesVars, findVars>>

OnStartComposition(appOwned) ==
    /\ cCompositions < MaxCompositions
    /\ Len(imeCalls) < MaxImeCalls
    /\ IF startRefused(cCompositions, pConversionArea, fModifyingDoc)
       THEN /\ lastCall' = [callback |-> "OnStartComposition", appOwned |-> appOwned,
                            hr |-> "S_OK", pfOk |-> FALSE]
            /\ UNCHANGED <<cCompositions, imeCalls>>
       ELSE /\ lastCall' = [callback |-> "OnStartComposition", appOwned |-> appOwned,
                            hr |-> "S_OK", pfOk |-> TRUE]
            /\ IF appOwned
               THEN UNCHANGED <<cCompositions, imeCalls>>
               ELSE /\ cCompositions' = cCompositions + 1
                    /\ imeCalls' = IF cCompositions + 1 # 1 THEN imeCalls
                                   ELSE Append(imeCalls, "ImeStartComposition")
    /\ UNCHANGED <<fModifyingDoc, pConversionArea,
                   trieVars, scanVars, runVars, bestVars, rulesVars, findVars>>

OnEndComposition(appOwned) ==
    /\ Len(imeCalls) < MaxImeCalls
    /\ IF endRefused(cCompositions, pConversionArea)
       THEN /\ lastCall' = [callback |-> "OnEndComposition", appOwned |-> appOwned,
                            hr |-> "E_FAIL", pfOk |-> FALSE]
            /\ UNCHANGED <<cCompositions, imeCalls>>
       ELSE /\ lastCall' = [callback |-> "OnEndComposition", appOwned |-> appOwned,
                            hr |-> "S_OK", pfOk |-> FALSE]
            /\ IF appOwned
               THEN UNCHANGED <<cCompositions, imeCalls>>
               ELSE /\ cCompositions' = cCompositions - 1
                    /\ imeCalls' = IF cCompositions - 1 # 0 THEN imeCalls
                                   ELSE Append(imeCalls, "ImeEndComposition")
    /\ UNCHANGED <<fModifyingDoc, pConversionArea,
                   trieVars, scanVars, runVars, bestVars, rulesVars, findVars>>

NextTSF ==
    \/ OnActivated
    \/ \E fSet \in BOOLEAN : SetModifyingDocFlag(fSet)
    \/ \E appOwned \in BOOLEAN : OnStartComposition(appOwned)
    \/ \E appOwned \in BOOLEAN : OnEndComposition(appOwned)

SpecTSF == InitTSF /\ [][NextTSF]_vars

(***************************************************************************)
(*                               C L A I M S                               *)
(***************************************************************************)
(***************************************************************************)
(* C1: the stages the builder of CodepointWidthDetector_gen.go returns     *)
(* reproduce every element of the input array by the chained lookup.       *)
(* (Violated: findExisting answers 0 for a needle whose first byte-level   *)
(* occurrence is not element-aligned.)                                     *)
(***************************************************************************)
C1_GenRoundTrip ==
    builder = "gen" => roundTrips(trie.Stages, uncompressed)

(***************************************************************************)
(* C2: the stages the builder of CodepointWidthDetector_triegen.go returns *)
(* reproduce every element of the input array by the chained lookup.       *)
(***************************************************************************)
C2_TriegenRoundTrip ==
    builder = "triegen" => roundTrips(trie.Stages, uncompressed)

\* A run of the simple builder that had to reuse a cached chunk and to
\* append several, over two stages, with a partial last chunk.
C2_Witness ==
    /\ builder = "triegen"
    /\ Len(shifts) = 2
    /\ Len(uncompressed) = 5
    /\ Len(trie.Stages[3].Values) < Len(uncompressed)
    /\ Len(trie.Stages[3].Values) > 2
    /\ roundTrips(trie.Stages, uncompressed)

(***************************************************************************)
(* Helpers of the claims about the grapheme scan.                          *)
(***************************************************************************)
category(val) == val % 16

RECURSIVE SumSeq(_)
SumSeq(q) == IF q = <<>> THEN 0 ELSE Head(q) + SumSeq(Tail(q))

\* The offsets at which the clusters of a list of advances start.
ClusterStarts(advances) ==
    {SumSeq(SubSeq(advances, 1, k)) : k \in 0..(Len(advances) - 1)}

\* A maximal run of Regional Indicators of odd length three or more.
HasOddRIRun(t) ==
    \E i \in 1..Len(t) : \E j \in i..Len(t) :
        /\ \A k \in i..j : category(t[k]) = cbRI
        /\ i = 1 \/ category(t[i - 1]) # cbRI
        /\ j = Len(t) \/ category(t[j + 1]) # cbRI
        /\ (j - i + 1) % 2 = 1
        /\ j - i + 1 >= 3

\* Bases of category Other and width Narrow, each followed by one or more
\* Extend marks of width ZeroWidth.
IsBasesWithMarks(t) ==
    /\ Len(t) >= 2
    /\ t[1] = trieValue(cbOther, cwNarrow)
    /\ t[Len(t)] = trieValue(cbExtend, cwZeroWidth)
    /\ \A i \in 1..Len(t) :
          t[i] \in {trieValue(cbOther, cwNarrow), trieValue(cbExtend, cwZeroWidth)}
    /\ \A i \in 1..(Len(t) - 1) :
          ~(t[i] = trieValue(cbOther, cwNarrow) /\ t[i + 1] = trieValue(cbOther, cwNarrow))

BaseOffsets(t) == {i - 1 : i \in {k \in 1..Len(t) : category(t[k]) = cbOther}}

ConjunctPairs ==
    { <<cbInCBConsonant, cbInCBLinker>>, <<cbInCBLinker, cbInCBLinker>>,
      <<cbInCBLinker, cbInCBConsonant>> }

(***************************************************************************)
(* C4 (as stated): for any text the forward scan and the reversed backward *)
(* scan give the same cluster boundaries.  Violated by three Regional      *)
(* Indicators: forward joins the first two, backward the last two.         *)
(***************************************************************************)
C4_ForwardBackwardSymmetry ==
    phase = "done" => fwdAdvances = bwdAdvances

(***************************************************************************)
(* C4 (amended): for any text in which no maximal run of Regional          *)
(* Indicators has an odd length of three or more, the forward scan and the *)
(* reversed backward scan give the same cluster boundaries.                *)
(***************************************************************************)
C4_SymmetryWithoutOddRIRun ==
    (phase = "done" /\ ~HasOddRIRun(text)) => fwdAdvances = bwdAdvances

\* Both scans of four Regional Indicators ended with the same two pairs.
C4_Witness ==
    /\ phase = "done"
    /\ Len(text) = 4
    /\ \A i \in 1..4 : category(text[i]) = cbRI
    /\ fwdAdvances = <<2, 2>>
    /\ bwdAdvances = <<2, 2>>

(***************************************************************************)
(* C5: for a text of Other bases each followed by one or more zero-width   *)
(* Extend marks, both loops give one cluster per base with all its marks   *)
(* (advances 2, 3, 2 for the text of the test), each of width 1.           *)
(***************************************************************************)
C5_BasesWithMarks ==
    (phase = "done" /\ IsBasesWithMarks(text)) =>
        /\ ClusterStarts(fwdAdvances) = BaseOffsets(text)
        /\ ClusterStarts(bwdAdvances) = BaseOffsets(text)
        /\ SumSeq(fwdAdvances) = Len(text)
        /\ SumSeq(bwdAdvances) = Len(text)
        /\ \A i \in 1..Len(fwdWidths) : fwdWidths[i] = 1
        /\ \A i \in 1..Len(bwdWidths) : bwdWidths[i] = 1
        /\ text = GraphemesText =>
              fwdAdvances = <<2, 3, 2>> /\ bwdAdvances = <<2, 3, 2>>

C5_Witness ==
    /\ phase = "done"
    /\ text = GraphemesText
    /\ fwdAdvances = <<2, 3, 2>>
    /\ fwdWidths = <<1, 1, 1>>
    /\ bwdAdvances = <<2, 3, 2>>
    /\ bwdWidths = <<1, 1, 1>>

(***************************************************************************)
(* C6: the forward scan never ends a cluster between Consonant and Linker, *)
(* Linker and Linker, or Linker and Consonant; GraphemeNext from offset 0  *)
(* of Consonant Linker Linker Consonant returns 4 and width 2.             *)
(***************************************************************************)
C6_ConjunctNotBroken ==
    /\ \A b \in ClusterStarts(fwdAdvances) :
          b > 0 => <<category(text[b]), category(text[b + 1])>> \notin ConjunctPairs
    /\ (text = DevanagariText /\ fwdAdvances # <<>>) =>
          fwdAdvances[1] = 4 /\ fwdWidths[1] = 2

C6_Witness ==
    /\ text = DevanagariText
    /\ fwdAdvances = <<4>>
    /\ fwdWidths = <<2>>

(***************************************************************************)
(* Notions the claims about extraction and run() are stated in.            *)
(***************************************************************************)
Range(q) == {q[i] : i \in 1..Len(q)}

\* The effective attributes of a record: its own, else its group's.
gcOf(char) == coalesce(char.GeneralCategory, char.group.GeneralCategory)

gcbOf(char) == coalesce(char.GraphemeClusterBreak, char.group.GraphemeClusterBreak)

incbOf(char) == coalesce(char.IndicConjunctBreak, char.group.IndicConjunctBreak)

extPictOf(char) == coalesce(char.ExtendedPictographic, char.group.ExtendedPictographic)

eaOf(char) == coalesce(char.EastAsian, char.group.EastAsian)

covers(char, cp) == firstCpOf(char) <= cp /\ cp <= lastCpOf(char)

\* The number in the document of the last record covering cp, 0 for none.
lastCovering(cp) ==
    LET covering == {i \in 1..Len(ucd) : covers(ucd[i], cp)}
    IN  IF covering = {} THEN 0 ELSE SetMax(covering)

overridden(cp) ==
    IF generator = "gen" THEN inPostPassRange(cp) ELSE inPostPassRange_triegen(cp)

ZeroWidthCategories == {"Mn", "Mc", "Me", "Cf"}

RecognizedGCB ==
    {"XX", "CR", "LF", "CN", "EX", "SM", "PP", "ZWJ", "RI", "L", "V", "T", "LV", "LVT"}

RecognizedInCB == {"None", "Extend", "Linker", "Consonant"}

RecognizedInCB_triegen == {"None", "Extend", "Linker"}

RecognizedEA == {"N", "Na", "H", "F", "W", "A"}

\* The category a record has when its InCB value is looked at.
isOther(char) == gcbOf(char) = "XX" /\ extPictOf(char) # "Y"

isExtend(char) == gcbOf(char) \in {"EX", "SM"} /\ extPictOf(char) # "Y"

BadRecord(char) ==
    \/ gcbOf(char) \notin RecognizedGCB
    \/ incbOf(char) \notin RecognizedInCB
    \/ eaOf(char) \notin RecognizedEA
    \/ extPictOf(char) = "Y" /\ gcbOf(char) # "XX"
    \/ incbOf(char) = "Linker" /\ ~isExtend(char)
    \/ incbOf(char) = "Consonant" /\ ~isOther(char)

extractionFailed == \E i \in 1..Len(ucd) : classifyBy(generator, ucd[i]).error # ""

selfCheckFailed == builder # "none" /\ ~roundTrips(trie.Stages, uncompressed)

failingRun ==
    \/ file \in {"unreadable", "malformed"}
    \/ extractionFailed
    \/ selfCheckFailed

(***************************************************************************)
(* C3: the tables are on standard output only if the file was read and     *)
(* parsed, no record was rejected and the trie gives back the dense        *)
(* array's value for every code point; a run that failed to read, to       *)
(* parse, to extract or to pass the self-check has written no tables and,  *)
(* once it has exited, its exit status is not 0.                           *)
(***************************************************************************)
C3_TablesOnlyAfterSuccess ==
    /\ "tables" \in Range(stdout) =>
          /\ osArgs > 1 /\ file = "ucd"
          /\ ~extractionFailed
          /\ values # Nil
          /\ builder = generator
          /\ uncompressed = dense(values)
          /\ roundTrips(trie.Stages, uncompressed)
          /\ stdout = <<"tables">>
    /\ failingRun => "tables" \notin Range(stdout)
    /\ failingRun /\ pc = "exit" => exitCode # 0

\* A run whose self-check found a mismatch has exited with status 1 and only
\* the error line on standard output.
C3_Witness ==
    /\ pc = "exit"
    /\ selfCheckFailed
    /\ err.msg = "trie sanity check failed"
    /\ exitCode = 1
    /\ stdout = <<"error">>

(***************************************************************************)
(* C7 as stated: after a successful extraction every sampled code point    *)
(* whose last covering record has a general category Mn, Mc, Me or Cf has  *)
(* width ZeroWidth.  (Violated at the code points of the fixed ranges      *)
(* written after all records.)                                             *)
(***************************************************************************)
C7_ZeroWidthEverywhere ==
    pc = "extracted" =>
        \A cp \in CodePoints :
            lastCovering(cp) # 0 /\ gcOf(ucd[lastCovering(cp)]) \in ZeroWidthCategories
                => ucdToCharacterWidth(values.at[cp]) = cwZeroWidth

(***************************************************************************)
(* C7 amended: the same for every code point outside the fixed ranges the  *)
(* generator writes after all records.                                     *)
(***************************************************************************)
C7_ZeroWidthOutsidePostPass ==
    pc = "extracted" =>
        \A cp \in CodePoints :
            /\ ~overridden(cp)
            /\ lastCovering(cp) # 0
            /\ gcOf(ucd[lastCovering(cp)]) \in ZeroWidthCategories
            => ucdToCharacterWidth(values.at[cp]) = cwZeroWidth

\* A format control and a mark with ea = "W" or "A" got width ZeroWidth.
C7_Witness ==
    /\ pc = "extracted"
    /\ \E cp \in CodePoints :
        /\ ~overridden(cp)
        /\ lastCovering(cp) # 0
        /\ gcOf(ucd[lastCovering(cp)]) = "Cf"
        /\ ucdToCharacterWidth(values.at[cp]) = cwZeroWidth
    /\ \E cp \in CodePoints :
        /\ ~overridden(cp)
        /\ lastCovering(cp) # 0
        /\ gcOf(ucd[lastCovering(cp)]) \in {"Mn", "Mc", "Me"}
        /\ eaOf(ucd[lastCovering(cp)]) \in {"W", "A"}
        /\ ucdToCharacterWidth(values.at[cp]) = cwZeroWidth

(***************************************************************************)
(* C8: in CodepointWidthDetector_gen.go a record with an unrecognized GCB, *)
(* InCB or ea value or an inconsistent combination is the last one         *)
(* extractValuesFromUCD looks at: it returns nil for the array and an      *)
(* error carrying that record's first and last code point.                 *)
(***************************************************************************)
C8_BadRecordIsAnError ==
    generator = "gen" =>
        \A i \in 1..Len(ucd) :
            BadRecord(ucd[i]) =>
                /\ i = Len(ucd)
                /\ pc = "failed"
                /\ values = Nil
                /\ err.msg # ""
                /\ err.firstCp = firstCpOf(ucd[i])
                /\ err.lastCp = lastCpOf(ucd[i])

\* A record with an unrecognized InCB value after one that was accepted.
C8_Witness ==
    /\ generator = "gen"
    /\ pc = "failed"
    /\ Len(ucd) = 2
    /\ ~BadRecord(ucd[1])
    /\ incbOf(ucd[2]) \notin RecognizedInCB
    /\ values = Nil
    /\ err.msg = "unrecognized InCB"

(***************************************************************************)
(* C9: in CodepointWidthDetector_triegen.go a record whose InCB value is   *)
(* none of "None", "Extend", "Linker" makes extractValuesFromUCD return an *)
(* error.  (Violated: the only test of InCB is the one for "Linker".)      *)
(***************************************************************************)
C9_UnrecognizedInCBAborts ==
    generator = "triegen" =>
        \A i \in 1..Len(ucd) :
            incbOf(ucd[i]) \notin RecognizedInCB_triegen => pc = "failed" /\ i = Len(ucd)

(***************************************************************************)
(* C10: after a successful extraction the array has 1,114,112 entries and  *)
(* every code point outside the fixed ranges written after all records     *)
(* holds the classification of the last record covering it, {Other,        *)
(* Narrow} if there is none.                                               *)
(***************************************************************************)
C10_LastRecordWins ==
    pc = "extracted" =>
        /\ values.len = 1114112
        /\ DOMAIN values.at = CodePoints
        /\ \A cp \in CodePoints :
            ~overridden(cp) =>
                values.at[cp] =
                    IF lastCovering(cp) = 0 THEN trieValue(cbOther, cwNarrow)
                    ELSE classifyBy(generator, ucd[lastCovering(cp)]).value

\* Two records with different classifications cover a code point, the later
\* one's is in the array, and another code point is covered by none.
C10_Witness ==
    /\ pc = "extracted"
    /\ Len(ucd) = 2
    /\ \E cp \in CodePoints :
        /\ ~overridden(cp)
        /\ covers(ucd[1], cp) /\ covers(ucd[2], cp)
        /\ classifyBy(generator, ucd[1]).value # classifyBy(generator, ucd[2]).value
        /\ values.at[cp] = classifyBy(generator, ucd[2]).value
    /\ \E cp \in CodePoints : lastCovering(cp) = 0 /\ values.at[cp] = trieValue(cbOther, cwNarrow)

(***************************************************************************)
(* C11: after a successful extraction the sampled code points of           *)
(* U+2500..U+259F are {Other, Narrow}, U+FE0F is {Extend, Wide} in the     *)
(* advanced generator, those of U+4DC0..U+4DFF and U+FE20..U+FE2F are      *)
(* {Other, Narrow} in the simple one, and the step that writes the fixed   *)
(* ranges leaves every code point outside them as the records left it.     *)
(***************************************************************************)
postPassValues ==
    \A cp \in CodePoints :
        /\ \h2500 <= cp /\ cp <= \h259F => values.at[cp] = trieValue(cbOther, cwNarrow)
        /\ generator = "gen" /\ cp = \hFE0F => values.at[cp] = trieValue(cbExtend, cwWide)
        /\ generator = "triegen" /\ \h4DC0 <= cp /\ cp <= \h4DFF
              => values.at[cp] = trieValue(cbOther, cwNarrow)
        /\ generator = "triegen" /\ \hFE20 <= cp /\ cp <= \hFE2F
              => values.at[cp] = trieValue(cbOther, cwNarrow)

postPassTouchesOnlyItsRanges ==
    pc = "extract" /\ pc' = "extracted" =>
        \A cp \in CodePoints : ~overridden(cp) => values'.at[cp] = values.at[cp]

C11_PostPassOverrides ==
    [](pc = "extracted" => postPassValues) /\ [][postPassTouchesOnlyItsRanges]_vars

\* The records had given every code point of the fixed ranges another value.
C11_Witness ==
    /\ pc = "extracted"
    /\ postPassValues
    /\ Len(ucd) >= 1
    /\ \A cp \in CodePoints :
        /\ lastCovering(cp) # 0
        /\ classifyBy(generator, ucd[lastCovering(cp)]).value
              \notin {trieValue(cbOther, cwNarrow), trieValue(cbExtend, cwWide)}
    /\ \E cp \in CodePoints :
        ~overridden(cp) /\ values.at[cp] = classifyBy(generator, ucd[lastCovering(cp)]).value

(***************************************************************************)
(* C12: every stage either builder returns has Bits in {8, 16, 32}, the    *)
(* least of them that holds the greatest of the stage's compressed Values; *)
(* TotalSize of the advanced builder's Trie is the sum over its stages of  *)
(* (Bits / 8) * len(Values).                                               *)
(***************************************************************************)
stageBitsAreMinimal(s) ==
    LET greatest == SeqMax(s.Values)
    IN  /\ s.Bits \in {8, 16, 32}
        /\ s.Bits < 32 => greatest < Pow2(s.Bits)
        /\ s.Bits = 8 <=> greatest <= 255
        /\ s.Bits = 16 <=> (255 < greatest /\ greatest <= 65535)

serializedSize(stages) ==
    SumSeq([i \in 1..Len(stages) |-> (stages[i].Bits \div 8) * Len(stages[i].Values)])

C12_BitsAreMinimal ==
    builder # "none" =>
        /\ \A i \in 1..Len(trie.Stages) : stageBitsAreMinimal(trie.Stages[i])
        /\ builder = "gen" => trie.TotalSize = serializedSize(trie.Stages)

\* A three-stage trie of the advanced builder with 32-bit values under
\* 8-bit offsets.
C12_Witness ==
    /\ builder = "gen"
    /\ Len(trie.Stages) = 3
    /\ trie.Stages[1].Bits = 8
    /\ trie.Stages[3].Bits = 32
    /\ SeqMax(trie.Stages[3].Values) = 65536
    /\ trie.TotalSize = serializedSize(trie.Stages)

(***************************************************************************)
(* C13: when buildBestTrie returns, its goroutines have built one trie for *)
(* each of the (maxShift-minShift+1)^(stages-1) lists of stages-1 shifts   *)
(* in minShift..maxShift, each list once, and the trie returned is one of  *)
(* them whose TotalSize no other's is below, in whatever order the results *)
(* arrived.                                                                *)
(***************************************************************************)
RECURSIVE power(_, _)
power(b, e) == IF e = 0 THEN 1 ELSE b * power(b, e - 1)

shiftCombinations == [1..(bestArgs.stages - 1) -> bestArgs.minShift..bestArgs.maxShift]

C13_BestOfAllCombinations ==
    bestPc = "returned" =>
        /\ Cardinality(DOMAIN workers)
              = power(bestArgs.maxShift - bestArgs.minShift + 1, bestArgs.stages - 1)
        /\ \A c \in shiftCombinations :
              Cardinality({i \in DOMAIN workers : workers[i].shifts = c}) = 1
        /\ \A i \in DOMAIN workers :
              /\ workers[i].shifts \in shiftCombinations
              /\ workers[i].result = buildTrie(uncompressed, workers[i].shifts)
        /\ \A c \in shiftCombinations :
              bestTrie.TotalSize <= buildTrie(uncompressed, c).TotalSize
        /\ \E i \in DOMAIN workers : bestTrie = workers[i].result
        /\ bestTrie \in buildBestTrie(uncompressed, bestArgs.minShift, bestArgs.maxShift,
                                      bestArgs.stages)

\* Four candidates of different sizes, the smallest not the first goroutine's.
C13_Witness ==
    /\ bestPc = "returned"
    /\ Cardinality(DOMAIN workers) = 4
    /\ workers[0].result.TotalSize > bestTrie.TotalSize
    /\ \E i \in DOMAIN workers : workers[i].result.TotalSize < workers[0].result.TotalSize

(***************************************************************************)
(* C14: buildBestTrie returns under every fair scheduling, and when it has *)
(* returned it has received iters results and every goroutine has sent its *)
(* one result and ended: none is left blocked on its send.                 *)
(***************************************************************************)
allWorkersDone == \A i \in DOMAIN workers : workers[i].pc = "done" /\ workers[i].sent = 1

noWorkerSentTwice == \A i \in DOMAIN workers : workers[i].sent <= 1

returnedWithAllReceived ==
    bestPc = "returned" => received = itersOf(bestArgs) /\ allWorkersDone

C14_BuildBestTrieTerminates ==
    /\ <>(bestPc = "returned")
    /\ []noWorkerSentTwice
    /\ []returnedWithAllReceived

C14_Witness ==
    /\ bestPc = "returned"
    /\ received = 4
    /\ Cardinality(DOMAIN workers) = 4
    /\ allWorkersDone

(***************************************************************************)
(* C15: for the same array and shifts the advanced builder's total size is *)
(* at most the simple builder's (exact-duplicate reuse only), which is at  *)
(* most the size of the stages with every chunk stored whole and none      *)
(* reused.                                                                 *)
(***************************************************************************)
\* The stages with no reuse at all: every stage keeps its input as it is and
\* hands the chunk starts 0, chunkSize, 2*chunkSize, ... to the next.
RECURSIVE naiveStages(_, _, _, _)
naiveStages(unc, shs, cumulativeShift, stages) ==
    IF shs = <<>>
    THEN Append(stages, Stage(unc, cumulativeShift, MaxUint32Bits))
    ELSE
        LET chunkSize == Pow2(Head(shs))
            chunks == (Len(unc) + chunkSize - 1) \div chunkSize
        IN  naiveStages([i \in 1..chunks |-> (i - 1) * chunkSize], Tail(shs),
                        cumulativeShift + Head(shs),
                        Append(stages, Stage(unc, cumulativeShift, Head(shs))))

naiveSize(unc, shs) == serializedSize(withBits(Reverse(naiveStages(unc, shs, 0, <<>>))))

C15_CompactnessMonotone ==
    /\ builder = "gen" =>
          trie.TotalSize <= buildTrie_triegen(uncompressed, shifts).TotalSize
    /\ builder = "triegen" =>
          /\ buildTrie(uncompressed, shifts).TotalSize <= trie.TotalSize
          /\ trie.TotalSize <= naiveSize(uncompressed, shifts)

\* A case in which each builder is strictly smaller than the next.
C15_Witness ==
    /\ builder = "gen"
    /\ Len(shifts) = 2
    /\ trie.TotalSize < buildTrie_triegen(uncompressed, shifts).TotalSize
    /\ buildTrie_triegen(uncompressed, shifts).TotalSize < naiveSize(uncompressed, shifts)

(***************************************************************************)
(* C16.  The generated lookups over the code space.  The dense array has   *)
(* 0x110000 entries, which is not a power of two: the code points that fit *)
(* in its index width (21 bits) go past its end.  In the scaled code space *)
(* the index width of an array is the least b with 2^b >= its length.      *)
(***************************************************************************)
RECURSIVE indexWidth(_, _)
indexWidth(n, b) == IF Pow2(b) >= n THEN b ELSE indexWidth(n, b + 1)

codeSpace(n) == 0..(Pow2(indexWidth(n, 0)) - 1)

ByteValues == 0..255

\* s_joinRules[state][lead & 15] is inside the table and the shift of the
\* 32-bit row is below its width.
joinsIndexInBounds(state, lead, trail) ==
    /\ state + 1 \in DOMAIN s_joinRules
    /\ (lead % 16) + 1 \in DOMAIN s_joinRules[state + 1]
    /\ (trail % 16) * 2 < 32

joinRulesLookupsDefined ==
    /\ \A state \in 0..1 : \A lead \in ByteValues : \A trail \in ByteValues :
          /\ joinsIndexInBounds(state, lead, trail)
          /\ ucdGraphemeJoins(state, lead, trail) \in 0..3
    /\ \A val \in ByteValues : ucdToCharacterWidth(val) \in 0..3

lookupsInBounds(cps) ==
    \A cp \in cps : trieLookup(trie.Stages, cp, 0) # LookupPanic

\* C16 (as stated): for every code point of the index width of the dense
\* array (21 bits for 0x110000 entries) every index computed by ucdLookup lies
\* inside its stage array, and ucdGraphemeJoins / ucdToCharacterWidth index
\* within s_joinRules and return a defined value for every byte-valued
\* argument with state 0 or 1.
C16_LookupsCannotFail ==
    /\ builder = "gen" => lookupsInBounds(codeSpace(Len(uncompressed)))
    /\ joinRulesLookupsDefined

\* C16 (amended): the same for every code point below the length of the dense
\* array (below 0x110000).
C16_LookupsInBoundsBelowLen ==
    /\ builder = "gen" => lookupsInBounds(0..(Len(uncompressed) - 1))
    /\ joinRulesLookupsDefined

\* A three-stage trie over an array whose length is not a power of two (its
\* last chunk is short), every code point of which is looked up in bounds
\* while the first one past its end is not.
C16_Witness ==
    /\ builder = "gen"
    /\ Len(uncompressed) = 5
    /\ Len(shifts) = 2
    /\ lookupsInBounds(0..(Len(uncompressed) - 1))
    /\ trieLookup(trie.Stages, Len(uncompressed), 0) = LookupPanic
    /\ ucdGraphemeJoins(1, 255, 255) = 0

(***************************************************************************)
(* C17 - C19: the tables of JoinRules, cell by cell and as the generated   *)
(* ucdGraphemeJoins reads them during a scan.                              *)
(***************************************************************************)
Categories == 0..(cbCount - 1)

cell(state, lead, trail) == JoinRules[state + 1][lead + 1][trail + 1]

isSquare(table) ==
    /\ Len(table) = cbCount
    /\ \A lead \in 1..Len(table) : Len(table[lead]) = cbCount

\* The literal, cell by cell: square tables that differ at [cbRI][cbRI] only.
tablesDifferOnlyAtRIPair ==
    /\ cbCount = 14
    /\ Len(JoinRules) = 2
    /\ isSquare(JoinRules[1])
    /\ isSquare(JoinRules[2])
    /\ \A lead \in Categories : \A trail \in Categories :
          (cell(0, lead, trail) # cell(1, lead, trail)) <=> (lead = cbRI /\ trail = cbRI)
    /\ cell(0, cbRI, cbRI) # Omega
    /\ cell(1, cbRI, cbRI) = Omega
    /\ \A lead \in Categories : \A trail \in Categories :
          (ucdGraphemeJoins(0, lead, trail) # ucdGraphemeJoins(1, lead, trail))
              <=> (lead = cbRI /\ trail = cbRI)

\* C17: both tables of JoinRules are square with cbCount = 14 rows and
\* columns, and they hold the same value in every (lead, trail) cell except
\* [cbRI][cbRI], which joins in the default table and breaks in the table
\* after a Regional Indicator pair; so the two states give different verdicts
\* between two neighbours of a text exactly when both are Regional Indicators.
C17_TablesDifferOnlyAtRIPair ==
    /\ tablesDifferOnlyAtRIPair
    /\ \A i \in 1..(Len(text) - 1) :
          (ucdGraphemeJoins(0, text[i], text[i + 1]) # ucdGraphemeJoins(1, text[i], text[i + 1]))
              <=> (category(text[i]) = cbRI /\ category(text[i + 1]) = cbRI)

\* Five Regional Indicators scanned forward: two pairs and a single one, the
\* third and the fifth refused by the second table.
C17_Witness ==
    /\ Len(text) = 5
    /\ \A i \in 1..5 : category(text[i]) = cbRI
    /\ fwdAdvances = <<2, 2, 1>>

\* The verdicts of ucdGraphemeJoins from the code point before offset pos on,
\* up to and including the break, starting in the given state.
RECURSIVE stateTrace(_, _, _)
stateTrace(str, pos, state) ==
    IF pos >= Len(str) THEN <<>>
    ELSE
        LET st == ucdGraphemeJoins(state, str[pos], str[pos + 1])
        IN  IF ucdGraphemeDone(st) THEN <<st>>
            ELSE <<st>> \o stateTrace(str, pos + 1, st)

\* The literal, cell by cell: the values that occur and where 1 occurs.
onlyRIPairLeavesDefault ==
    /\ Omega = 3
    /\ \A state \in 0..1 : \A lead \in Categories : \A trail \in Categories :
          /\ cell(state, lead, trail) \in {0, 1, Omega}
          /\ cell(state, lead, trail) = 1 <=> (state = 0 /\ lead = cbRI /\ trail = cbRI)
          /\ ucdGraphemeJoins(state, lead, trail) = cell(state, lead, trail)

\* C18: every cell of JoinRules is 0 (join, next state default), 1 (join,
\* next state after-RI-pair) or 3 (break); the only cell with value 1 is
\* (default, cbRI, cbRI); every join in the after-RI-pair table is 0; so in a
\* scan from any offset of the text the state is 1 exactly after a join of two
\* Regional Indicators taken in state 0.
C18_OnlyRIPairLeavesDefault ==
    /\ onlyRIPairLeavesDefault
    /\ \A b \in 1..Len(text) :
          LET tr == stateTrace(text, b, 0)
          IN  \A k \in 1..Len(tr) :
                 tr[k] = 1 <=> /\ category(text[b + k - 1]) = cbRI
                               /\ category(text[b + k]) = cbRI
                               /\ (IF k = 1 THEN 0 ELSE tr[k - 1]) = 0

\* Two Regional Indicators and a mark: the pair joins into state 1, the mark
\* joins there and the scan is back in state 0.
C18_Witness ==
    /\ Len(text) = 3
    /\ category(text[1]) = cbRI
    /\ category(text[2]) = cbRI
    /\ category(text[3]) = cbExtend
    /\ stateTrace(text, 1, 0) = <<1, 0>>
    /\ fwdAdvances = <<3>>

\* The offsets at which a cluster of a list of advances starts or ends.
ClusterEdges(advances) == {SumSeq(SubSeq(advances, 1, k)) : k \in 0..Len(advances)}

\* C19: in both tables of JoinRules the row and the column of cbControl are
\* all breaks, cbPrepend before cbControl and cbControl before cbExtend,
\* cbZWJ, cbInCBLinker included; so no cluster of a scanned text holds a
\* Control together with another code point.
C19_BreakAroundControl ==
    /\ \A state \in 0..1 : \A c \in Categories :
          /\ cell(state, cbControl, c) = Omega
          /\ cell(state, c, cbControl) = Omega
          /\ ucdGraphemeDone(ucdGraphemeJoins(state, cbControl, c))
          /\ ucdGraphemeDone(ucdGraphemeJoins(state, c, cbControl))
    /\ \A i \in 1..Len(text) :
          category(text[i]) = cbControl =>
              /\ SumSeq(fwdAdvances) >= i => {i - 1, i} \subseteq ClusterEdges(fwdAdvances)
              /\ phase = "done" => {i - 1, i} \subseteq ClusterEdges(bwdAdvances)

\* Prepend, Control, Extend scanned both ways: three clusters.
C19_Witness ==
    /\ phase = "done"
    /\ Len(text) = 3
    /\ category(text[1]) = cbPrepend
    /\ category(text[2]) = cbControl
    /\ category(text[3]) = cbExtend
    /\ fwdAdvances = <<1, 1, 1>>
    /\ bwdAdvances = <<1, 1, 1>>

(***************************************************************************)
(* C20.  The table of the simple generator around CB_CONTROL.              *)
(***************************************************************************)
category_triegen(val) == val % 16

\* C20: in the table returned by the simple buildJoinRules, rules[CB_CONTROL][c]
\* and rules[c][CB_CONTROL] are false for every category c, CB_PREPEND and
\* CB_CONJUNCT_LINKER before CB_CONTROL included, and the lookup of a pair with
\* a Control on either side returns 0.
C20_SimpleBreakAroundControl ==
    /\ rulesPc \in {"built", "looked up"} =>
          \A c \in ClusterBreaks :
              /\ ~rulesTable[CB_CONTROL + 1][c + 1]
              /\ ~rulesTable[c + 1][CB_CONTROL + 1]
    /\ (/\ rulesPc = "looked up"
        /\ CB_CONTROL \in {category_triegen(leadValue), category_triegen(trailValue)})
          => joinVerdict = 0

(***************************************************************************)
(* C21.  Extend and ZWJ after any leading category but Control.            *)
(***************************************************************************)
\* C21: in both tables of JoinRules, for every leading category other than
\* cbControl, the cells of a trailing cbExtend and of a trailing cbZWJ are 0
\* (a join whose next state is the default one); so in a forward scan no
\* cluster starts at an Extend or a ZWJ that does not follow a Control.
C21_JoinBeforeExtendAndZWJ ==
    /\ \A state \in 0..1 : \A lead \in Categories \ {cbControl} :
          /\ cell(state, lead, cbExtend) = 0
          /\ cell(state, lead, cbZWJ) = 0
          /\ ucdGraphemeJoins(state, lead, cbExtend) = 0
          /\ ucdGraphemeJoins(state, lead, cbZWJ) = 0
    /\ \A b \in ClusterStarts(fwdAdvances) :
          (b > 0 /\ category(text[b + 1]) \in {cbExtend, cbZWJ})
              => category(text[b]) = cbControl

\* A Hangul L with a ZWJ and a mark: one cluster.
C21_Witness ==
    /\ Len(text) = 3
    /\ category(text[1]) = cbHangulL
    /\ category(text[2]) = cbZWJ
    /\ category(text[3]) = cbExtend
    /\ fwdAdvances = <<3>>

(***************************************************************************)
(* C22.  The columns of the simple generator's table.                      *)
(***************************************************************************)
\* C22: in the table returned by the simple buildJoinRules, rules[lead][t] is
\* true for every leading category other than CB_CONTROL and t one of
\* CB_EXTEND, CB_ZERO_WIDTH_JOINER, CB_CONJUNCT_LINKER, and the lookup of such
\* a pair returns 1.
C22_SimpleJoinBeforeExtend ==
    /\ rulesPc \in {"built", "looked up"} =>
          \A l \in ClusterBreaks \ {CB_CONTROL} :
              /\ rulesTable[l + 1][CB_EXTEND + 1]
              /\ rulesTable[l + 1][CB_ZERO_WIDTH_JOINER + 1]
              /\ rulesTable[l + 1][CB_CONJUNCT_LINKER + 1]
    /\ (/\ rulesPc = "looked up"
        /\ category_triegen(leadValue) # CB_CONTROL
        /\ category_triegen(trailValue) \in
              {CB_EXTEND, CB_ZERO_WIDTH_JOINER, CB_CONJUNCT_LINKER})
          => joinVerdict = 1

(***************************************************************************)
(* C23.  The Hangul pairs in the tables of both generators.                *)
(***************************************************************************)
HangulCategories == {cbHangulL, cbHangulV, cbHangulT, cbHangulLV, cbHangulLVT}

\* L L, L V, L LV, L LVT, V V, V T, LV V, LV T, LVT T, T T
HangulJoins ==
    { <<cbHangulL, cbHangulL>>, <<cbHangulL, cbHangulV>>, <<cbHangulL, cbHangulLV>>,
      <<cbHangulL, cbHangulLVT>>, <<cbHangulV, cbHangulV>>, <<cbHangulV, cbHangulT>>,
      <<cbHangulLV, cbHangulV>>, <<cbHangulLV, cbHangulT>>, <<cbHangulLVT, cbHangulT>>,
      <<cbHangulT, cbHangulT>> }

HangulCategories_triegen ==
    {CB_HANGUL_L, CB_HANGUL_V, CB_HANGUL_T, CB_HANGUL_LV, CB_HANGUL_LVT}

HangulJoins_triegen ==
    { <<CB_HANGUL_L, CB_HANGUL_L>>, <<CB_HANGUL_L, CB_HANGUL_V>>,
      <<CB_HANGUL_L, CB_HANGUL_LV>>, <<CB_HANGUL_L, CB_HANGUL_LVT>>,
      <<CB_HANGUL_V, CB_HANGUL_V>>, <<CB_HANGUL_V, CB_HANGUL_T>>,
      <<CB_HANGUL_LV, CB_HANGUL_V>>, <<CB_HANGUL_LV, CB_HANGUL_T>>,
      <<CB_HANGUL_LVT, CB_HANGUL_T>>, <<CB_HANGUL_T, CB_HANGUL_T>> }

\* C23: among the 25 pairs of Hangul categories, in both tables of JoinRules
\* and in the table returned by the simple buildJoinRules, exactly the ten
\* pairs L L, L V, L LV, L LVT, V V, V T, LV V, LV T, LVT T, T T join; the
\* other fifteen break.
C23_HangulPairs ==
    /\ Cardinality(HangulJoins) = 10
    /\ \A state \in 0..1 : \A l \in HangulCategories : \A t \in HangulCategories :
          /\ (cell(state, l, t) # Omega) <=> (<<l, t>> \in HangulJoins)
          /\ ~ucdGraphemeDone(ucdGraphemeJoins(state, l, t)) <=> (<<l, t>> \in HangulJoins)
    /\ rulesPc \in {"built", "looked up"} =>
          \A l \in HangulCategories_triegen : \A t \in HangulCategories_triegen :
              rulesTable[l + 1][t + 1] <=> (<<l, t>> \in HangulJoins_triegen)
    /\ (/\ rulesPc = "looked up"
        /\ category_triegen(leadValue) \in HangulCategories_triegen
        /\ category_triegen(trailValue) \in HangulCategories_triegen)
          => (joinVerdict = 1 <=>
                <<category_triegen(leadValue), category_triegen(trailValue)>>
                    \in HangulJoins_triegen)

\* L before LVT looked up in the simple table: a join, as in the advanced one.
C23_Witness ==
    /\ rulesPc = "looked up"
    /\ category_triegen(leadValue) = CB_HANGUL_L
    /\ category_triegen(trailValue) = CB_HANGUL_LVT
    /\ joinVerdict = 1
    /\ ucdGraphemeJoins(0, cbHangulL, cbHangulLVT) = 0

(***************************************************************************)
(* C24.  Regional Indicators in the forward scan.                          *)
(***************************************************************************)
\* The number of Regional Indicators in a row from offset b on.
RECURSIVE riRunLength(_, _)
riRunLength(str, b) ==
    IF b < Len(str) /\ category(str[b + 1]) = cbRI THEN 1 + riRunLength(str, b + 1) ELSE 0

\* The clusters scanned so far, as <<start, end>> offsets.
scannedClusters(advances) ==
    { <<SumSeq(SubSeq(advances, 1, k - 1)), SumSeq(SubSeq(advances, 1, k))>> :
        k \in 1..Len(advances) }

riCount(str, from, to) ==
    Cardinality({i \in (from + 1)..to : category(str[i]) = cbRI})

\* C24: in the forward scan (every cluster started in state 0, the state
\* returned by ucdGraphemeJoins threaded through) no cluster holds more than
\* two Regional Indicators, and a run of n of them that begins at a cluster
\* start is cut after every second one: the clusters inside the run start at
\* its even offsets exactly (floor(n/2) pairs, then a single one when n is
\* odd).
C24_FlagsComeInPairs ==
    /\ \A c \in scannedClusters(fwdAdvances) : riCount(text, c[1], c[2]) <= 2
    /\ \A b \in ClusterStarts(fwdAdvances) :
          \A k \in 1..(riRunLength(text, b) - 1) :
              b + k <= SumSeq(fwdAdvances) =>
                  ((b + k \in ClusterEdges(fwdAdvances)) <=> (k % 2 = 0))

\* Five Regional Indicators and the whole forward scan: two pairs and one.
C24_Witness ==
    /\ phase # "forward"
    /\ riRunLength(text, 0) = 5
    /\ scannedClusters(fwdAdvances) = {<<0, 2>>, <<2, 4>>, <<4, 5>>}

(***************************************************************************)
(* C25.  ZWJ sequences in the advanced tables.                             *)
(***************************************************************************)
ZWJTrailers == {cbExtend, cbInCBLinker, cbExtPic, cbZWJ}

\* C25: in both tables of JoinRules every leading category other than
\* cbControl joins a trailing cbZWJ, cbZWJ joins a trailing cbExtPic whatever
\* came before it, and cbZWJ joins no trailing category outside cbExtend,
\* cbInCBLinker, cbExtPic and cbZWJ; so a forward scan never ends a cluster
\* inside X, ZWJ, ExtPic for X other than Control.
C25_ZWJSequenceNotBroken ==
    /\ \A state \in 0..1 :
          /\ \A lead \in Categories \ {cbControl} : cell(state, lead, cbZWJ) # Omega
          /\ cell(state, cbZWJ, cbExtPic) # Omega
          /\ \A trail \in Categories :
                (cell(state, cbZWJ, trail) # Omega) <=> (trail \in ZWJTrailers)
          /\ \A trail \in Categories :
                ~ucdGraphemeDone(ucdGraphemeJoins(state, cbZWJ, trail))
                    <=> (trail \in ZWJTrailers)
    /\ \A i \in 1..(Len(text) - 2) :
          (/\ category(text[i]) # cbControl
           /\ category(text[i + 1]) = cbZWJ
           /\ category(text[i + 2]) = cbExtPic
           /\ SumSeq(fwdAdvances) >= i + 2)
              => {i, i + 1} \cap ClusterEdges(fwdAdvances) = {}

\* A letter, a ZWJ and a pictograph: one cluster, although no pictograph
\* precedes the ZWJ.
C25_Witness ==
    /\ Len(text) = 3
    /\ category(text[1]) = cbOther
    /\ category(text[2]) = cbZWJ
    /\ category(text[3]) = cbExtPic
    /\ fwdAdvances = <<3>>

(***************************************************************************)
(* C28.  The packed rows against the literal.                              *)
(***************************************************************************)
\* Every field of every packed row against the cell it was packed from.
packedRowsKeepVerdicts ==
    \A state \in 0..1 : \A lead \in Categories : \A trail \in Categories :
        /\ ShiftRight(s_joinRules[state + 1][lead + 1], 2 * trail) % 4
              = cell(state, lead, trail)
        /\ ucdGraphemeJoins(state, lead, trail) = cell(state, lead, trail)

\* C28: for both states and every lead and trail below cbCount,
\* (prepareRulesTable(JoinRules)[state][lead] >> (2 * trail)) & 3, which is
\* what ucdGraphemeJoins(state, lead, trail) returns, equals
\* JoinRules[state][lead][trail]; so between every two neighbours of a text
\* the generated lookup gives the verdict of the literal, in either state.
C28_PackingRoundTrip ==
    /\ packedRowsKeepVerdicts
    /\ \A state \in 0..1 : \A i \in 1..(Len(text) - 1) :
          ucdGraphemeJoins(state, text[i], text[i + 1])
              = cell(state, category(text[i]), category(text[i + 1]))

\* The last column of the last row, read through a value with width bits set:
\* ZWJ before ZWJ joins.
C28_Witness ==
    /\ Len(text) = 2
    /\ category(text[1]) = cbZWJ
    /\ category(text[2]) = cbZWJ
    /\ ucdGraphemeJoins(1, text[1], text[2]) = 0
    /\ ucdGraphemeJoins(0, trieValue(cbRI, cwNarrow), trieValue(cbRI, cwNarrow)) = 1
    /\ fwdAdvances = <<2>>

(***************************************************************************)
(* C26.  What the goroutines of buildBestTrie write.                       *)
(***************************************************************************)
inputUnchanged == uncompressed' = uncompressed

\* A step of a goroutine up to its send changes its own trie and nothing that
\* another goroutine or the collector reads.
workerStepIsPrivate ==
    \A i \in DOMAIN workers :
        (workers[i].pc = "running" /\ workers'[i].pc = "sending") =>
            /\ \A j \in DOMAIN workers \ {i} : workers'[j] = workers[j]
            /\ bestTrie' = bestTrie
            /\ received' = received

occurrences(haystack, needle) ==
    { i \in 0..(Len(haystack) - Len(needle)) :
        Slice(haystack, i, i + Len(needle)) = needle }

\* C27: a call of findExisting with a haystack and a needle that are not
\* empty returns -1 or an element index at which the needle stands in the
\* haystack, element for element, and -1 only when it stands at no element
\* index: a match of the bytes that begins inside an element yields no index.
C27_FindExistingFindsNeedle ==
    (findPc = "returned" /\ findHaystack # <<>> /\ findNeedle # <<>>) =>
        /\ findResult = -1 \/ findResult \in occurrences(findHaystack, findNeedle)
        /\ findResult = -1 => occurrences(findHaystack, findNeedle) = {}

(***************************************************************************)
(* C30.  The composition counter of CConsoleTSF and the Ime calls.         *)
(***************************************************************************)
imeCallsAlternate ==
    \A k \in 1..Len(imeCalls) :
        imeCalls[k] = IF k % 2 = 1 THEN "ImeStartComposition" ELSE "ImeEndComposition"

countNeverNegative == cCompositions >= 0

isCallback == lastCall' # lastCall \/ cCompositions' # cCompositions \/ imeCalls' # imeCalls

\* One callback against the claim: what it may change and what it calls.
callbackKeepsCount ==
    isCallback =>
        /\ (lastCall'.callback = "OnEndComposition" /\ cCompositions = 0) =>
              /\ lastCall'.hr = "E_FAIL"
              /\ cCompositions' = cCompositions
              /\ imeCalls' = imeCalls
        /\ lastCall'.appOwned => cCompositions' = cCompositions /\ imeCalls' = imeCalls
        /\ (imeCalls' = Append(imeCalls, "ImeStartComposition"))
              <=> (cCompositions = 0 /\ cCompositions' = 1)
        /\ (imeCalls' = Append(imeCalls, "ImeEndComposition"))
              <=> (cCompositions = 1 /\ cCompositions' = 0)
        /\ imeCalls' # imeCalls => Len(imeCalls') = Len(imeCalls) + 1

\* C30: over any sequence of OnStartComposition / OnEndComposition callbacks
\* _cCompositions is never negative; OnEndComposition with no composition
\* active returns E_FAIL and changes nothing; a composition owned by the
\* application changes neither the count nor the calls; ImeStartComposition
\* is called exactly when the count goes from 0 to 1 and ImeEndComposition
\* exactly when it goes from 1 to 0; so the calls alternate, beginning with
\* ImeStartComposition.
C30_CompositionCounter ==
    /\ [](countNeverNegative /\ imeCallsAlternate)
    /\ [][callbackKeepsCount]_vars

\* Two nested compositions begun and ended, then OnEndComposition refused.
C30_Witness ==
    /\ imeCalls = <<"ImeStartComposition", "ImeEndComposition">>
    /\ cCompositions = 0
    /\ lastCall = [callback |-> "OnEndComposition", appOwned |-> FALSE,
                   hr |-> "E_FAIL", pfOk |-> FALSE]

(***************************************************************************)
(* C29.  The trie buildBestTrie returns and the order of the results.      *)
(***************************************************************************)
smallestCandidates ==
    buildBestTrie(uncompressed, bestArgs.minShift, bestArgs.maxShift, bestArgs.stages)

\* The size returned is that of the smallest candidates, and the trie is
\* the smallest candidate when there is one only.
sizeSetByInput ==
    bestPc = "returned" =>
        /\ \A t \in smallestCandidates : t.TotalSize = bestTrie.TotalSize
        /\ Cardinality(smallestCandidates) = 1 => smallestCandidates = {bestTrie}

\* A result takes bestTrie's place only when it is strictly smaller.
replacedBySmallerOnly == bestTrie' # bestTrie => bestTrie'.TotalSize < bestTrie.TotalSize

\* C29 (amended): for a fixed input array buildBestTrie returns a trie of
\* the same TotalSize, the least of all candidates, under every order in
\* which the goroutines deliver their results, and the same trie when one
\* candidate only has that size; a result replaces the best so far only when
\* strictly smaller, so of candidates of equal least size the first delivered
\* is returned.
C29_SameSizeUnderEveryOrder ==
    /\ []sizeSetByInput
    /\ [][replacedBySmallerOnly]_vars

\* Returned with two different candidates of the least size.
C29_Witness ==
    /\ bestPc = "returned"
    /\ Cardinality(smallestCandidates) > 1
    /\ bestTrie \in smallestCandidates

\* C29: for a fixed input array buildBestTrie returns the same trie (same
\* shifts, same stage contents) under every order in which the goroutines
\* deliver their results, also when two candidates have equal TotalSize:
\* the trie returned is the only one the call can return for its arguments.
C29_SameTrieUnderEveryOrder ==
    bestPc = "returned" =>
        \A t \in buildBestTrie(uncompressed, bestArgs.minShift, bestArgs.maxShift,
                               bestArgs.stages) : t = bestTrie

====
